---- MODULE Spec2Model ----
(***************************************************************************)
(* A model of the matching and ranking engine of CV_Analysis_Project:      *)
(* SemanticMatcher (app/services/matcher/semantic_matcher.py of the        *)
(* updated version), its domain gate, its four sub-scores, the weighted    *)
(* aggregate of match, and the loop of rank_candidates; beside it          *)
(* rank_resumes of the earlier SemanticMatcher (app/services/matcher) and  *)
(* the model chain of LLMExtractor (app/services/extractor).               *)
(*                                                                         *)
(* Python values are tagged records, so that values of different Python    *)
(* types can be told apart and compared.  A str is the sequence of its     *)
(* characters; a float or int is an exact rational n/d in lowest terms, or *)
(* one of the IEEE specials nan, inf, -inf; an operation that raises       *)
(* yields Raised, which every caller passes on until a try block catches   *)
(* it.                                                                     *)
(***************************************************************************)
EXTENDS Integers, Sequences, FiniteSets, TLC

\* The largest number of years of experience a resume states.
MaxYears == 3

\* The largest number of resumes in one call of rank_candidates.
MaxResumes == 3

\* The longest skill list _calculate_skills_match and generate_explanation
\* are called with.
MaxSkills == 3

\* The most years of experience and the highest min_experience
\* _check_experience is called with.
MaxExperienceYears == 6

VARIABLES weights, incompatible_domains, gemini_available, call, ret, pc, i,
          ranked, attempts

vars == <<weights, incompatible_domains, gemini_available, call, ret, pc, i,
          ranked, attempts>>

(***************************************************************************)
(* weights, incompatible_domains: the matcher's two fields.                *)
(* gemini_available: the field of the LLMExtractor that says whether       *)
(*     __init__ configured the Gemini client.                              *)
(* call, ret: the call under way with its arguments, and what it returned. *)
(* pc: "idle" before a call, "loop" inside rank_candidates' loop, "chain"  *)
(*     inside the extractor's loop over the models, "returned" once the    *)
(*     call has returned.                                                  *)
(* i, ranked: the loops' locals: the number of resumes (of models) the     *)
(*     loop has consumed and the list rank_candidates appends to.          *)
(* attempts: for each resume the loop has consumed, in order, the resume   *)
(*     and what the embedder did for it; for each model the extractor has  *)
(*     tried, the model and what it did.                                   *)
(***************************************************************************)

(***************************************************************************)
(* Python values                                                           *)
(*                                                                         *)
(* A record stands for a value whatever the order of its fields.  Every    *)
(* record below is written with its fields in the order TLC sorts them     *)
(* into, so that a record two workers hold at once is already in that      *)
(* order and neither rearranges it under the other.                        *)
(***************************************************************************)
None == [t |-> "none"]

\* The marker of a key a dict does not hold; never a value of the program.
Absent == [t |-> "absent"]

\* What an operation that raised an Exception yields.
Raised == [t |-> "raise"]

PyStr(s) == [t |-> "str", s |-> s]

PyBool(b) == [t |-> "bool", b |-> b]

True == PyBool(TRUE)

False == PyBool(FALSE)

PyList(l) == [t |-> "list", l |-> l]

PyDict(f) == [t |-> "dict", d |-> f]

PySet(e) == [t |-> "set", e |-> e]

IsStr(x) == x.t = "str"

IsList(x) == x.t = "list"

IsDict(x) == x.t = "dict"

IsNum(x) == x.t \in {"num", "nan", "inf"}

\* A dict built from a record, leaving out the keys marked Absent.
MkDict(f) == PyDict([k \in {k \in DOMAIN f : f[k] # Absent} |-> f[k]])

\* dict.get(key, default); raises AttributeError when d is no dict.
Get(d, key, default) ==
    IF ~IsDict(d) THEN Raised
    ELSE IF key \in DOMAIN d.d THEN d.d[key] ELSE default

\* Python's truth value of x.
Truthy(x) ==
    CASE x.t = "none" -> FALSE
      [] x.t = "bool" -> x.b
      [] x.t = "str"  -> Len(x.s) > 0
      [] x.t = "list" -> Len(x.l) > 0
      [] x.t = "dict" -> DOMAIN x.d # {}
      [] x.t = "num"  -> x.n # 0
      [] OTHER        -> TRUE

(***************************************************************************)
(* Numbers                                                                 *)
(***************************************************************************)
Abs(n) == IF n < 0 THEN -n ELSE n

Sgn(n) == IF n < 0 THEN -1 ELSE IF n > 0 THEN 1 ELSE 0

RECURSIVE Gcd(_, _)
Gcd(a, b) == IF b = 0 THEN a ELSE Gcd(b, a % b)

\* The rational n/d (d # 0) in lowest terms with a positive denominator.
Num(n, d) ==
    LET g == Gcd(Abs(n), Abs(d))
    IN  [t |-> "num", d |-> Abs(d) \div g, n |-> Sgn(d) * (n \div g)]

NaN == [t |-> "nan"]

Inf(sg) == [t |-> "inf", sg |-> sg]

NumSgn(x) == IF x.t = "inf" THEN x.sg ELSE Sgn(x.n)

\* x * y of two numbers, with float's rules for nan and inf.
Mul(x, y) ==
    IF Raised \in {x, y} \/ ~IsNum(x) \/ ~IsNum(y) THEN Raised
    ELSE IF NaN \in {x, y} THEN NaN
    ELSE IF x.t = "inf" \/ y.t = "inf"
         THEN IF NumSgn(x) * NumSgn(y) = 0 THEN NaN
              ELSE Inf(NumSgn(x) * NumSgn(y))
    ELSE Num(x.n * y.n, x.d * y.d)

\* x + y of two numbers, with float's rules for nan and inf.
Add(x, y) ==
    IF Raised \in {x, y} \/ ~IsNum(x) \/ ~IsNum(y) THEN Raised
    ELSE IF NaN \in {x, y} THEN NaN
    ELSE IF x.t = "inf" /\ y.t = "inf"
         THEN IF x.sg = y.sg THEN x ELSE NaN
    ELSE IF x.t = "inf" THEN x
    ELSE IF y.t = "inf" THEN y
    ELSE Num(x.n * y.d + y.n * x.d, x.d * y.d)

\* x < y of two numbers; every comparison with nan is false.
Lt(x, y) ==
    IF NaN \in {x, y} THEN FALSE
    ELSE IF x.t = "inf" THEN x.sg = -1 /\ y # x
    ELSE IF y.t = "inf" THEN y.sg = 1
    ELSE x.n * y.d < y.n * x.d

\* Python's max(a, b) and min(a, b): the first argument unless the second
\* is strictly greater (smaller).
PyMax(a, b) == IF Lt(a, b) THEN b ELSE a

PyMin(a, b) == IF Lt(b, a) THEN b ELSE a

Zero == Num(0, 1)

One == Num(1, 1)

(***************************************************************************)
(* Strings                                                                 *)
(***************************************************************************)
LowerOf == [A |-> "a", B |-> "b", C |-> "c", D |-> "d", E |-> "e", F |-> "f",
            G |-> "g", H |-> "h", I |-> "i", J |-> "j", K |-> "k", L |-> "l",
            M |-> "m", N |-> "n", O |-> "o", P |-> "p", Q |-> "q", R |-> "r",
            S |-> "s", T |-> "t", U |-> "u", V |-> "v", W |-> "w", X |-> "x",
            Y |-> "y", Z |-> "z"]

\* str.lower() on the characters of a str.
Lower(s) == [k \in 1..Len(s) |-> IF s[k] \in DOMAIN LowerOf THEN LowerOf[s[k]] ELSE s[k]]

\* s.startswith(p) on the characters of two strs.
StartsWith(s, p) == Len(p) <= Len(s) /\ SubSeq(s, 1, Len(p)) = p

\* `p in s` of two strs: p occurs in s as a substring.
Contains(s, p) == \E k \in 0..(Len(s) - Len(p)) : SubSeq(s, k + 1, k + Len(p)) = p

\* sep.join(parts) on the characters of the parts.
RECURSIVE Join(_, _)
Join(sep, parts) ==
    IF Len(parts) = 0 THEN <<>>
    ELSE IF Len(parts) = 1 THEN parts[1]
    ELSE parts[1] \o sep \o Join(sep, Tail(parts))

\* x.startswith(p) of a Python value x; AttributeError when x is no str.
PyStartsWith(x, p) == IF ~IsStr(x) THEN Raised ELSE PyBool(StartsWith(x.s, p))

\* The characters of the strs in the order of their code points.
CodePoints ==
    <<" ", "A", "B", "C", "D", "E", "F", "G", "H", "I", "J", "K", "L", "M", "N",
      "O", "P", "Q", "R", "S", "T", "U", "V", "W", "X", "Y", "Z", "_", "a", "b",
      "c", "d", "e", "f", "g", "h", "i", "j", "k", "l", "m", "n", "o", "p", "q",
      "r", "s", "t", "u", "v", "w", "x", "y", "z">>

\* ord(c), up to the order.
Ord(c) == CHOOSE k \in 1..Len(CodePoints) : CodePoints[k] = c

\* s < t of two strs: by the first character that differs, a proper prefix
\* first.
RECURSIVE StrLt(_, _)
StrLt(s, t) ==
    IF Len(t) = 0 THEN FALSE
    ELSE IF Len(s) = 0 THEN TRUE
    ELSE IF Head(s) # Head(t) THEN Ord(Head(s)) < Ord(Head(t))
    ELSE StrLt(Tail(s), Tail(t))

\* The strs of a set, the greatest first.
RECURSIVE MutSortedStrsDescending(_)
MutSortedStrsDescending(S) ==
    IF S = {} THEN <<>>
    ELSE LET greatest == CHOOSE x \in S : \A y \in S \ {x} : StrLt(y, x)
         IN  <<greatest>> \o MutSortedStrsDescending(S \ {greatest})

\* sorted(S) of a set of strs.
RECURSIVE SortedStrs(_)
SortedStrs(S) ==
    IF S = {} THEN <<>>
    ELSE LET least == CHOOSE x \in S : \A y \in S \ {x} : StrLt(x, y)
         IN  <<least>> \o SortedStrs(S \ {least})

accounting == <<"a", "c", "c", "o", "u", "n", "t", "i", "n", "g">>

ai_ml == <<"a", "i", "_", "m", "l">>

engineering == <<"e", "n", "g", "i", "n", "e", "e", "r", "i", "n", "g">>

general == <<"g", "e", "n", "e", "r", "a", "l">>

(***************************************************************************)
(* SemanticMatcher.__init__                                                *)
(***************************************************************************)
\* Defaults with the weights of domain and skills exchanged.
MutDefaultWeightsSkillsFirst ==
    PyDict([domain |-> Num(25, 100), skills |-> Num(60, 100),
            experience |-> Num(10, 100), education |-> Num(5, 100)])

\* The defaults of __init__.
DefaultWeights ==
    PyDict([domain |-> Num(60, 100), skills |-> Num(25, 100),
            experience |-> Num(10, 100), education |-> Num(5, 100)])

\* The table without the entry of general.
MutTableWithoutGeneral ==
    << <<accounting, <<ai_ml, engineering>> >>,
       <<ai_ml, <<accounting>> >>,
       <<engineering, <<accounting>> >> >>

\* The table with ai_ml excluding nothing: accounting still excludes ai_ml.
MutTableOneWay ==
    << <<accounting, <<ai_ml, engineering>> >>,
       <<ai_ml, << >> >>,
       <<engineering, <<accounting>> >>,
       <<general, << >> >> >>

\* self.incompatible_domains, in the dict's insertion order.
IncompatibleDomains ==
    << <<accounting, <<ai_ml, engineering>> >>,
       <<ai_ml, <<accounting>> >>,
       <<engineering, <<accounting>> >>,
       <<general, << >> >> >>

\* self.weights = weights or {defaults}
InitWeights(w) == IF Truthy(w) THEN w ELSE DefaultWeights

(***************************************************************************)
(* SemanticMatcher._check_domain_compatibility                             *)
(***************************************************************************)
\* any(x == d for d in ds): the excluded families matched exactly, not by
\* prefix.
MutAnyEquals(x, ds) ==
    IF Len(ds) = 0 THEN False
    ELSE IF ~IsStr(x) THEN Raised
    ELSE PyBool(\E k \in 1..Len(ds) : x.s = ds[k])

\* any(x.startswith(d) for d in ds): stops at the first true, raises when
\* x is no str and ds is not empty.
RECURSIVE AnyStartsWith(_, _)
AnyStartsWith(x, ds) ==
    IF Len(ds) = 0 THEN False
    ELSE LET h == PyStartsWith(x, Head(ds))
         IN  IF h = Raised THEN Raised
             ELSE IF h.b THEN True
             ELSE AnyStartsWith(x, Tail(ds))

\* b in place of not b.
MutNotIdentity(b) == b

\* not b
Not(b) == IF b = Raised THEN Raised ELSE PyBool(~b.b)

\* The loop ending in `return True`: a gate that fails open.
RECURSIVE MutDomainLoopFailOpen(_, _, _, _)
MutDomainLoopFailOpen(table, resume_domain, jd_domain, k) ==
    IF k > Len(table) THEN True
    ELSE LET domain == table[k][1]
             incompatible == table[k][2]
             j == PyStartsWith(jd_domain, domain)
         IN  IF j = Raised THEN Raised
             ELSE IF j.b THEN Not(AnyStartsWith(resume_domain, incompatible))
             ELSE LET r == PyStartsWith(resume_domain, domain)
                  IN  IF r = Raised THEN Raised
                      ELSE IF r.b THEN Not(AnyStartsWith(jd_domain, incompatible))
                      ELSE MutDomainLoopFailOpen(table, resume_domain, jd_domain, k + 1)

\* The loop testing the job domain only against each key.
RECURSIVE MutDomainLoopJobOnly(_, _, _, _)
MutDomainLoopJobOnly(table, resume_domain, jd_domain, k) ==
    IF k > Len(table) THEN False
    ELSE LET domain == table[k][1]
             incompatible == table[k][2]
             j == PyStartsWith(jd_domain, domain)
         IN  IF j = Raised THEN Raised
             ELSE IF j.b THEN Not(AnyStartsWith(resume_domain, incompatible))
             ELSE MutDomainLoopJobOnly(table, resume_domain, jd_domain, k + 1)

\* The loop over self.incompatible_domains.items(), from entry k on.
RECURSIVE DomainLoop(_, _, _, _)
DomainLoop(table, resume_domain, jd_domain, k) ==
    IF k > Len(table) THEN False
    ELSE LET domain == table[k][1]
             incompatible == table[k][2]
             j == PyStartsWith(jd_domain, domain)
         IN  IF j = Raised THEN Raised
             ELSE IF j.b THEN Not(AnyStartsWith(resume_domain, incompatible))
             ELSE LET r == PyStartsWith(resume_domain, domain)
                  IN  IF r = Raised THEN Raised
                      ELSE IF r.b THEN Not(AnyStartsWith(jd_domain, incompatible))
                      ELSE DomainLoop(table, resume_domain, jd_domain, k + 1)

\* The gate without the exact-match test of lines 107-108.
MutCheckDomainNoExactMatch(table, resume_domain, jd_domain) ==
    DomainLoop(table, resume_domain, jd_domain, 1)

\* _check_domain_compatibility: True, False or Raised.
CheckDomainCompatibility(table, resume_domain, jd_domain) ==
    IF resume_domain = jd_domain THEN True
    ELSE DomainLoop(table, resume_domain, jd_domain, 1)

(***************************************************************************)
(* sklearn.metrics.pairwise.cosine_similarity                              *)
(***************************************************************************)
\* A row check_pairwise_arrays accepts: a list of one or more finite numbers.
IsVector(e) ==
    /\ IsList(e)
    /\ Len(e.l) >= 1
    /\ \A k \in 1..Len(e.l) : e.l[k].t = "num"

RECURSIVE Dot(_, _)
Dot(a, b) == IF Len(a) = 0 THEN Zero ELSE Add(Mul(Head(a), Head(b)), Dot(Tail(a), Tail(b)))

\* The square root of a rational that is the square of a rational.
Sqrt(x) ==
    Num(CHOOSE k \in 0..x.n : k * k = x.n, CHOOSE k \in 1..x.d : k * k = x.d)

\* normalize(X): each row divided by its l2 norm, a zero row left as it is.
Normalize(a) ==
    LET norm == Sqrt(Dot(a, a))
        by == IF norm = Zero THEN One ELSE Num(norm.d, norm.n)
    IN  [k \in 1..Len(a) |-> Mul(a[k], by)]

\* cosine_similarity([a], [b])[0][0]; ValueError when a row is malformed or
\* the two rows differ in length.
CosineSimilarity(a, b) ==
    IF ~IsVector(a) \/ ~IsVector(b) THEN Raised
    ELSE IF Len(a.l) # Len(b.l) THEN Raised
    ELSE Dot(Normalize(a.l), Normalize(b.l))

(***************************************************************************)
(* SemanticMatcher._calculate_skills_match                                 *)
(***************************************************************************)
\* {s.lower() for s in x}: TypeError when x is not iterable (None, a
\* number), AttributeError when an element is no str.
\* The set of the strings as they are, upper case kept.
MutLowerSetKeepsCase(x) ==
    IF x = Raised \/ ~IsList(x) THEN Raised
    ELSE IF \E k \in 1..Len(x.l) : ~IsStr(x.l[k]) THEN Raised
    ELSE PySet({x.l[k].s : k \in 1..Len(x.l)})

LowerSet(x) ==
    IF x = Raised \/ ~IsList(x) THEN Raised
    ELSE IF \E k \in 1..Len(x.l) : ~IsStr(x.l[k]) THEN Raised
    ELSE PySet({Lower(x.l[k].s) : k \in 1..Len(x.l)})

\* The share of the required skills the resume has: intersection over the
\* size of the job's set instead of the union.
MutSkillsMatchCoverage(resume_skills, jd_skills) ==
    IF Raised \in {resume_skills, jd_skills} THEN Raised
    ELSE IF ~Truthy(jd_skills) THEN Zero
    ELSE LET resume_set == LowerSet(resume_skills)
             jd_set == LowerSet(jd_skills)
         IN  IF resume_set = Raised \/ jd_set = Raised THEN Raised
             ELSE Num(Cardinality(resume_set.e \cap jd_set.e), Cardinality(jd_set.e))

CalculateSkillsMatch(resume_skills, jd_skills) ==
    IF Raised \in {resume_skills, jd_skills} THEN Raised
    ELSE IF ~Truthy(jd_skills) THEN Zero
    ELSE LET resume_set == LowerSet(resume_skills)
             jd_set == LowerSet(jd_skills)
         IN  IF resume_set = Raised \/ jd_set = Raised THEN Raised
             ELSE LET intersection == Cardinality(resume_set.e \cap jd_set.e)
                      union == Cardinality(resume_set.e \cup jd_set.e)
                  IN  IF union > 0 THEN Num(intersection, union) ELSE Zero

(***************************************************************************)
(* SemanticMatcher._check_education                                        *)
(***************************************************************************)
required_certs == {<<"c", "a">>, <<"a", "c", "c", "a">>, <<"c", "p", "a">>}

\* The education fragments joined without the space between them.
MutJoinedLowerNoSeparator(x) ==
    IF x = Raised \/ ~IsList(x) THEN Raised
    ELSE IF \E k \in 1..Len(x.l) : ~IsStr(x.l[k]) THEN Raised
    ELSE PyStr(Lower(Join(<<>>, [k \in 1..Len(x.l) |-> x.l[k].s])))

\* " ".join(x).lower(): TypeError when x is not iterable or holds a non-str.
JoinedLower(x) ==
    IF x = Raised \/ ~IsList(x) THEN Raised
    ELSE IF \E k \in 1..Len(x.l) : ~IsStr(x.l[k]) THEN Raised
    ELSE PyStr(Lower(Join(<<" ">>, [k \in 1..Len(x.l) |-> x.l[k].s])))

CheckEducation(resume_data, jd_data) ==
    LET strict == Get(jd_data, "strict_requirements", False)
    IN  IF strict = Raised THEN Raised
        ELSE IF ~Truthy(strict) THEN One
        ELSE IF Get(jd_data, "domain", PyStr(<<>>)) = PyStr(accounting)
        THEN LET resume_certs == LowerSet(Get(resume_data, "certifications", PyList(<<>>)))
                 resume_edu == JoinedLower(Get(resume_data, "education", PyList(<<>>)))
             IN  IF resume_certs = Raised \/ resume_edu = Raised THEN Raised
                 ELSE IF \E c \in resume_certs.e : c \in required_certs THEN One
                 ELSE IF \E term \in required_certs : Contains(resume_edu.s, term) THEN One
                 ELSE Zero
        ELSE One

(***************************************************************************)
(* SemanticMatcher._check_experience                                       *)
(***************************************************************************)
\* A partial credit without the factor 0.5: years / min_experience.
MutCheckExperienceLinear(table, resume_data, jd_data) ==
    LET rd == Get(resume_data, "domain", PyStr(<<>>))
        jd == Get(jd_data, "domain", PyStr(<<>>))
        ok == IF Raised \in {rd, jd} THEN Raised
              ELSE CheckDomainCompatibility(table, rd, jd)
        resume_exp == Get(resume_data, "years_of_experience", Zero)
        jd_min_exp == Get(jd_data, "min_experience", Zero)
    IN  IF ok = Raised THEN Raised
        ELSE IF ~ok.b THEN Zero
        ELSE IF jd_min_exp = Zero THEN One
        ELSE IF resume_exp.t # "num" \/ jd_min_exp.t # "num" THEN Raised
        ELSE IF ~Lt(resume_exp, jd_min_exp) THEN One
        ELSE Mul(resume_exp, Num(jd_min_exp.d, jd_min_exp.n))

CheckExperience(table, resume_data, jd_data) ==
    LET rd == Get(resume_data, "domain", PyStr(<<>>))
        jd == Get(jd_data, "domain", PyStr(<<>>))
        ok == IF Raised \in {rd, jd} THEN Raised
              ELSE CheckDomainCompatibility(table, rd, jd)
        resume_exp == Get(resume_data, "years_of_experience", Zero)
        jd_min_exp == Get(jd_data, "min_experience", Zero)
    IN  IF ok = Raised THEN Raised
        ELSE IF ~ok.b THEN Zero
        ELSE IF jd_min_exp = Zero THEN One
        \* resume_exp >= jd_min_exp: TypeError unless both are numbers
        ELSE IF resume_exp.t # "num" \/ jd_min_exp.t # "num" THEN Raised
        ELSE IF ~Lt(resume_exp, jd_min_exp) THEN One
        ELSE Mul(Num(1, 2), Mul(resume_exp, Num(jd_min_exp.d, jd_min_exp.n)))

(***************************************************************************)
(* SemanticMatcher.match                                                   *)
(***************************************************************************)
\* self.weights[key]: KeyError when the key is missing, TypeError when the
\* weights are no dict.
Subscript(w, key) == IF IsDict(w) /\ key \in DOMAIN w.d THEN w.d[key] ELSE Raised

\* A result whose score has the base score added in before the clamp.
MutMatchResultBlendsBase(score, base_score, domain_match, skills_match, education_match, experience_match) ==
    PyDict([score |-> PyMin(One, PyMax(Zero, Add(score, base_score))),
            details |-> PyDict([base_score |-> base_score,
                                domain_match |-> domain_match,
                                skills_match |-> skills_match,
                                education_match |-> education_match,
                                experience_match |-> experience_match])])

MatchResult(score, base_score, domain_match, skills_match, education_match, experience_match) ==
    PyDict([score |-> score,
            details |-> PyDict([base_score |-> base_score,
                                domain_match |-> domain_match,
                                skills_match |-> skills_match,
                                education_match |-> education_match,
                                experience_match |-> experience_match])])

\* The weighted sum with the education and the experience weight exchanged.
MutWeightedScoreSwapped(w, domain_match, skills_match, education_match, experience_match) ==
    Add(Add(Add(Mul(IF domain_match.b THEN One ELSE Zero, Subscript(w, "domain")),
                Mul(skills_match, Subscript(w, "skills"))),
            Mul(education_match, Subscript(w, "experience"))),
        Mul(experience_match, Subscript(w, "education")))

\* The weighted sum of lines 74-79.
WeightedScore(w, domain_match, skills_match, education_match, experience_match) ==
    Add(Add(Add(Mul(IF domain_match.b THEN One ELSE Zero, Subscript(w, "domain")),
                Mul(skills_match, Subscript(w, "skills"))),
            Mul(education_match, Subscript(w, "education"))),
        Mul(experience_match, Subscript(w, "experience")))

\* The clamp without its upper end.
MutClampNoMin(weighted_score) == PyMax(Zero, weighted_score)

\* min(1.0, max(0.0, weighted_score))
Clamp(weighted_score) == PyMin(One, PyMax(Zero, weighted_score))

\* The result for incompatible domains with the base score zeroed too.
MutIncompatibleResultNoBase(base_score) == MatchResult(Zero, Zero, Zero, Zero, Zero, Zero)

\* The result of lines 53-62, for incompatible domains.
IncompatibleResult(base_score) == MatchResult(Zero, base_score, Zero, Zero, Zero, Zero)

\* The body of the try block: a result, or Raised.
MatchTry(w, table, resume_embedding, jd_embedding, resume_data, jd_data) ==
    LET base_score == CosineSimilarity(resume_embedding, jd_embedding)
        resume_domain == Get(resume_data, "domain", PyStr(general))
        jd_domain == Get(jd_data, "domain", PyStr(general))
        domain_match == IF Raised \in {resume_domain, jd_domain} THEN Raised
                        ELSE CheckDomainCompatibility(table, resume_domain, jd_domain)
    IN  IF base_score = Raised \/ domain_match = Raised THEN Raised
        ELSE IF ~domain_match.b
        THEN IncompatibleResult(base_score)
        ELSE LET skills_match ==
                     CalculateSkillsMatch(Get(resume_data, "skills", PyList(<<>>)),
                                          Get(jd_data, "required_skills", PyList(<<>>)))
                 education_match == CheckEducation(resume_data, jd_data)
                 experience_match == CheckExperience(table, resume_data, jd_data)
                 weighted_score ==
                     WeightedScore(w, domain_match, skills_match, education_match,
                                   experience_match)
             IN  IF Raised \in {skills_match, education_match, experience_match,
                                weighted_score}
                 THEN Raised
                 ELSE MatchResult(Clamp(weighted_score), base_score,
                                  IF domain_match.b THEN One ELSE Zero,
                                  skills_match, education_match, experience_match)

\* An except branch that re-raises.
MutZeroResultReraise == Raised

\* The except branch reporting domain_match 1.0.
MutZeroResultKeepsDomain == MatchResult(Zero, Zero, One, Zero, Zero, Zero)

\* The result of the except branch.
ZeroResult == MatchResult(Zero, Zero, Zero, Zero, Zero, Zero)

Match(w, table, resume_embedding, jd_embedding, resume_data, jd_data) ==
    LET r == MatchTry(w, table, resume_embedding, jd_embedding, resume_data, jd_data)
    IN  IF r = Raised THEN ZeroResult ELSE r

(***************************************************************************)
(* SemanticMatcher.generate_explanation                                    *)
(***************************************************************************)
\* The list of the strs of a sequence of character sequences.
ListOfStrs(l) == PyList([k \in 1..Len(l) |-> PyStr(l[k])])

\* score >= 0.25: a lower threshold.
MutAtLeastQuarter(score) == PyBool(~Lt(score, Num(1, 4)))

\* score >= 0.5
AtLeastHalf(score) == PyBool(~Lt(score, Num(1, 2)))

\* The explanation, or Raised: nothing in generate_explanation catches an
\* exception of the gate, of the two sub-scores or of the set
\* comprehensions.
GenerateExplanation(table, resume_data, jd_data) ==
    LET resume_domain == Get(resume_data, "domain", PyStr(<<>>))
        jd_domain == Get(jd_data, "domain", PyStr(<<>>))
        domain_match == IF Raised \in {resume_domain, jd_domain} THEN Raised
                        ELSE CheckDomainCompatibility(table, resume_domain, jd_domain)
        education_score == CheckEducation(resume_data, jd_data)
        experience_score == CheckExperience(table, resume_data, jd_data)
        required_skills == LowerSet(Get(jd_data, "required_skills", PyList(<<>>)))
        resume_skills == LowerSet(Get(resume_data, "skills", PyList(<<>>)))
    IN  IF Raised \in {domain_match, education_score, experience_score,
                       required_skills, resume_skills}
        THEN Raised
        ELSE PyDict([resume_domain |-> resume_domain,
                     jd_domain |-> jd_domain,
                     domain_match |-> domain_match,
                     education_score |-> education_score,
                     experience_score |-> experience_score,
                     education_met |-> AtLeastHalf(education_score),
                     experience_met |-> AtLeastHalf(experience_score),
                     matched_skills |->
                         ListOfStrs(SortedStrs(required_skills.e \cap resume_skills.e)),
                     missing_skills |->
                         ListOfStrs(SortedStrs(required_skills.e \ resume_skills.e))])

(***************************************************************************)
(* SemanticMatcher.rank_candidates                                         *)
(***************************************************************************)
\* An iteration that lets a failure inside match skip the resume as well.
MutRankEntrySkipsFailedMatch(w, table, resume, emb, jd_embedding, jd_data) ==
    IF Get(resume, "content", PyStr(<<>>)) = Raised \/ emb = Raised THEN Raised
    ELSE IF MatchTry(w, table, emb, jd_embedding, resume, jd_data) = Raised THEN Raised
    ELSE LET match_result == Match(w, table, emb, jd_embedding, resume, jd_data)
         IN  <<match_result.d.score, resume, match_result.d.details>>

\* The body of the try block of one iteration, given what the embedder
\* does for the resume: the tuple to append, or Raised.
RankEntry(w, table, resume, emb, jd_embedding, jd_data) ==
    IF Get(resume, "content", PyStr(<<>>)) = Raised \/ emb = Raised THEN Raised
    ELSE LET match_result == Match(w, table, emb, jd_embedding, resume, jd_data)
         IN  <<match_result.d.score, resume, match_result.d.details>>

\* The sort with an entry put before the entries of the same score.
RECURSIVE MutInsertBeforeEqual(_, _)
MutInsertBeforeEqual(sorted, x) ==
    IF Len(sorted) = 0 THEN <<x>>
    ELSE IF ~Lt(x[1], Head(sorted)[1]) THEN <<x>> \o sorted
    ELSE <<Head(sorted)>> \o MutInsertBeforeEqual(Tail(sorted), x)

\* x put into a list sorted by score, descending, behind the entries of the
\* same score.
RECURSIVE InsertByScore(_, _)
InsertByScore(sorted, x) ==
    IF Len(sorted) = 0 THEN <<x>>
    ELSE IF Lt(Head(sorted)[1], x[1]) THEN <<x>> \o sorted
    ELSE <<Head(sorted)>> \o InsertByScore(Tail(sorted), x)

RECURSIVE SortPrefix(_, _)
SortPrefix(l, n) == IF n = 0 THEN <<>> ELSE InsertByScore(SortPrefix(l, n - 1), l[n])

RECURSIVE MutSortPrefixUnstable(_, _)
MutSortPrefixUnstable(l, n) ==
    IF n = 0 THEN <<>> ELSE MutInsertBeforeEqual(MutSortPrefixUnstable(l, n - 1), l[n])

\* The sort with the entries of the same score in reverse order.
MutSortedUnstable(l) == MutSortPrefixUnstable(l, Len(l))

\* A sort that also divides every score by the best score of the list.
MutSortedNormalised(l) ==
    LET sorted == SortPrefix(l, Len(l))
    IN  [k \in 1..Len(sorted) |->
            <<IF sorted[1][1] = Zero THEN Zero
              ELSE Mul(sorted[k][1], Num(sorted[1][1].d, sorted[1][1].n)),
              sorted[k][2], sorted[k][3]>>]

\* sorted(ranked, key=lambda x: x[0], reverse=True): by score, descending,
\* entries of the same score in their order in ranked.
SortedByScore(l) == SortPrefix(l, Len(l))

(***************************************************************************)
(* SemanticMatcher.rank_resumes of src/app/services/matcher                *)
(***************************************************************************)
\* top_k: int = 5
DefaultTopK == 5

\* l[:k] for a list l and an int k: the first k elements, all of them when
\* there are fewer; for a negative k all but the last -k.
SliceTo(l, k) ==
    IF k >= 0 THEN SubSeq(l, 1, IF k < Len(l) THEN k ELSE Len(l))
    ELSE SubSeq(l, 1, IF Len(l) + k > 0 THEN Len(l) + k ELSE 0)

\* rankings.sort(key=lambda x: x[1], reverse=True) on tuples (idx, score):
\* by score, descending, tuples of the same score in their order.
SortedByScoreOfIndex(rankings) ==
    LET by_score == SortedByScore([k \in 1..Len(rankings) |->
                                     <<rankings[k][2], rankings[k][1]>>])
    IN  [k \in 1..Len(rankings) |-> <<by_score[k][2], by_score[k][1]>>]

\* rank_resumes, given what match returns for each resume (a score, or it
\* raises): (idx, score) for every resume, sorted, cut to top_k. The loop
\* has no handler: an exception of match is an exception of the call.
LegacyRankResumes(scores, top_k) ==
    IF \E k \in 1..Len(scores) : scores[k] = Raised THEN Raised
    ELSE LET rankings == [k \in 1..Len(scores) |-> <<Num(k - 1, 1), scores[k]>>]
             K == IF top_k = Absent THEN DefaultTopK ELSE top_k.n
         IN  PyList(SliceTo(SortedByScoreOfIndex(rankings), K))

(***************************************************************************)
(* LLMExtractor of src/app/services/extractor/llm_extractor.py             *)
(***************************************************************************)
\* The models the extraction tries, in order.
model_names == <<"gemini-1.5-pro", "gemini-1.5-flash", "gemini-pro">>

\* {}
EmptyDict == PyDict(<<>>)

\* A response whose text attribute is the str text.
Response(text) == [k |-> "response", text |-> text]

\* An exception of GenerativeModel, generate_content or response.text whose
\* str() is msg.
Failure(msg) == [k |-> "raise", msg |-> msg]

\* re.search(r'\{.*\}', text, re.DOTALL): with .* greedy and matching
\* newlines, the match runs from the first "{" to the last "}" behind it;
\* Absent when there is no such pair.
JsonMatch(text) ==
    LET opens == {k \in 1..Len(text) : text[k] = "{"}
    IN  IF opens = {} THEN Absent
        ELSE LET first == CHOOSE k \in opens : \A m \in opens : k <= m
                 closes == {k \in (first + 1)..Len(text) : text[k] = "}"}
             IN  IF closes = {} THEN Absent
                 ELSE LET last == CHOOSE k \in closes : \A m \in closes : m <= k
                      IN  SubSeq(text, first, last)

\* json.loads on the matches of the responses: {} and {"a":1} are JSON
\* objects and parse to their dicts, every other match is no JSON and
\* raises JSONDecodeError.
JsonLoads(json_str) ==
    IF json_str = <<"{", "}">> THEN EmptyDict
    ELSE IF json_str = <<"{", "\"", "a", "\"", ":", "1", "}">>
    THEN PyDict([a |-> Num(1, 1)])
    ELSE Raised

\* _parse_llm_response: the parsed match, {} when there is no match and
\* when json.loads raises JSONDecodeError.
ParseLlmResponse(response_text) ==
    LET json_match == JsonMatch(response_text)
    IN  IF json_match = Absent THEN EmptyDict
        ELSE LET parsed == JsonLoads(json_match)
             IN  IF parsed = Raised THEN EmptyDict ELSE parsed

\* One iteration of the loop over the models: the parsed response is
\* returned; an exception whose message holds "404" moves on to the next
\* model; any other exception is raised again.
TryModel(outcome) ==
    IF outcome.k = "response"
    THEN [do |-> "return", value |-> ParseLlmResponse(outcome.text)]
    ELSE IF Contains(outcome.msg, <<"4", "0", "4">>) THEN [do |-> "continue"]
    ELSE [do |-> "raise"]

(***************************************************************************)
(* The values the calls are made with                                      *)
(***************************************************************************)
marketing == <<"m", "a", "r", "k", "e", "t", "i", "n", "g">>

sales == <<"s", "a", "l", "e", "s">>

engineering_electrical == engineering \o <<"_", "e", "l", "e", "c", "t", "r", "i", "c", "a", "l">>

\* The domain strings the gate is called with: the table's keys, sub-tagged
\* domains, the empty string, domains of no family, proper prefixes of a key
\* and a string that holds a key without starting with it.
DomainStrings ==
    {<<>>, general, accounting, ai_ml, engineering, marketing, sales,
     engineering_electrical, accounting \o <<"_", "t", "a", "x">>,
     ai_ml \o <<"_", "n", "l", "p">>, general \o <<"_", "i", "t">>,
     <<"a", "i">>, <<"a", "c", "c">>, <<"x">> \o accounting}

GateDomains == {PyStr(d) : d \in DomainStrings} \cup {None}

python == <<"p", "y", "t", "h", "o", "n">>

Python == <<"P", "y", "t", "h", "o", "n">>

tensorflow == <<"t", "e", "n", "s", "o", "r", "f", "l", "o", "w">>

pytorch == <<"p", "y", "t", "o", "r", "c", "h">>

StrList(l) == PyList([k \in 1..Len(l) |-> PyStr(l[k])])

IntList(l) == PyList([k \in 1..Len(l) |-> Num(l[k], 1)])

MkResume(domain, skills, years, education, certifications) ==
    MkDict([domain |-> domain, skills |-> skills, education |-> education,
            certifications |-> certifications, years_of_experience |-> years])

MkJob(domain, required_skills, min_experience, strict_requirements) ==
    MkDict([domain |-> domain, required_skills |-> required_skills,
            min_experience |-> min_experience,
            strict_requirements |-> strict_requirements])

\* The resume and the job of the end-to-end scenario.
ExampleResume ==
    MkResume(PyStr(ai_ml), StrList(<<python, tensorflow>>), Num(3, 1), Absent, Absent)

ExampleJob == MkJob(PyStr(ai_ml), StrList(<<python, pytorch>>), Num(2, 1), False)

\* The domain field of the records match is called with: absent, not a
\* str, and strs of each family and of none.
MatchDomains ==
    {Absent, None, PyStr(general), PyStr(accounting), PyStr(ai_ml), PyStr(marketing)}

ResumeSkills ==
    {None, StrList(<<python, tensorflow>>), StrList(<<Python, python, pytorch>>)}

RequiredSkills == {Absent, None, StrList(<<python, pytorch>>)}

ResumeYears == {None} \cup {Num(y, 1) : y \in 0..MaxYears}

MinExperiences == {Absent, Num(2, 1), Num(5, 1)}

Educations == {Absent, StrList(<<<<"A", "C">>, <<"c", "a">>>>)}

Certifications == {Absent, None, StrList(<<<<"C", "P", "A">>>>)}

\* The resume records, and None for a resume that is no dict.
ResumeRecords ==
    {MkResume(d, s, y, e, c) : d \in MatchDomains, s \in ResumeSkills,
                               y \in ResumeYears, e \in Educations,
                               c \in Certifications}
    \cup {None}

\* The job records, and None for a job that is no dict.
JobRecords ==
    {MkJob(d, s, m, st) : d \in MatchDomains, s \in RequiredSkills,
                          m \in MinExperiences, st \in {False, True}}
    \cup {None}

\* Embeddings of the resume: two well-formed ones and None.
ResumeEmbeddings == {IntList(<<3, 4>>), IntList(<<0, 1>>), None}

\* Embeddings of the job: one of the same length and one shorter.
JobEmbeddings == {IntList(<<1, 0>>), IntList(<<2>>)}

\* The weights arguments of the matchers match is called on with every
\* record: none (the defaults) and a dict without the education key.
WeightsArguments ==
    {None,
     PyDict([domain |-> Num(6, 10), skills |-> Num(1, 4), experience |-> Num(1, 10)])}

\* The values of a weight in the weight configurations: below 0, 0, two
\* values four of which sum to at most 1, above 1, nan, inf and no number.
WeightValues ==
    {Num(-1, 2), Zero, Num(1, 4), Num(1, 2), Num(3, 2), NaN, Inf(1),
     PyStr(<<"h", "i", "g", "h">>)}

\* Every weight configuration over WeightValues, and the empty dict (the
\* defaults).
WeightConfigurations ==
    {PyDict([domain |-> a, skills |-> b, experience |-> d, education |-> c]) :
        a \in WeightValues, b \in WeightValues, c \in WeightValues, d \in WeightValues}
    \cup {PyDict(<<>>)}

\* The records the weight configurations are tried on: resumes of the
\* domain general and jobs they are compatible with, which between them
\* give every sub-score several values.
ScoredResumes ==
    {MkResume(PyStr(general), s, y, Absent, c) :
        s \in {StrList(<<python, tensorflow>>), StrList(<<Python, python, pytorch>>)},
        y \in {Num(k, 1) : k \in 0..MaxYears},
        c \in {Absent, StrList(<<<<"C", "P", "A">>>>)}}
    \cup {ExampleResume}

ScoredJobs ==
    {MkJob(PyStr(general), StrList(<<python, pytorch>>), Num(2, 1), False),
     MkJob(PyStr(accounting), StrList(<<python, pytorch>>), Num(5, 1), True),
     MkJob(PyStr(accounting), Absent, Absent, True),
     ExampleJob}

\* The resumes rank_candidates is called with: the scenario's resume, a
\* resume of a higher score, a different resume of the same score, a
\* resume of an incompatible domain,
\* a resume whose skills are no list, and a resume that is no dict.
RankResumes ==
    {ExampleResume,
     MkResume(PyStr(ai_ml), StrList(<<Python, python, pytorch>>), Num(3, 1), Absent, Absent),
     MkResume(PyStr(ai_ml), StrList(<<python, tensorflow>>), Num(3, 1), Absent,
              StrList(<<<<"C", "P", "A">>>>)),
     MkResume(PyStr(accounting), StrList(<<python, tensorflow>>), Num(3, 1), Absent, Absent),
     MkResume(PyStr(ai_ml), None, Num(3, 1), Absent, Absent),
     None}

\* What embedder.generate_embeddings does: it raises, or returns an
\* embedding of the job embedding's length or of another length.
EmbedderOutcomes == {Raised, IntList(<<3, 4>>), IntList(<<2>>)}

\* What match of src/app/services/matcher does for a resume: it returns
\* the cosine similarity the sentence model gives, or raises.
LegacyMatchOutcomes == {Raised, Num(1, 5), Num(3, 5), Num(4, 5)}

\* The top_k arguments: left out, and 0 to one more than the most resumes.
TopKs == {Absent} \cup {Num(k, 1) : k \in 0..(MaxResumes + 1)}

\* The two entry points of the extractor.
ExtractOps == {"extract_fields", "extract_job_requirements"}

\* The text argument: a str, and None (which the slice in the prompt
\* raises TypeError for).
ExtractTexts == {PyStr(<<"c", "v">>), None}

\* What a model does: it answers with a JSON object, with an object inside
\* other text, with two objects, with braces that hold no JSON, with no
\* braces or with the braces the wrong way round; or it raises: model not
\* found (404, alone or inside a message), rate limit (429), quota
\* exceeded, some other error.
ModelOutcomes ==
    {Response(<<"{", "}">>),
     Response(<<"o", "k", " ", "{", "\"", "a", "\"", ":", "1", "}", ".">>),
     Response(<<"{", "}", " ", "{", "}">>),
     Response(<<"{", "a", "}">>),
     Response(<<"n", "o">>),
     Response(<<"}", "{">>),
     Failure(<<"4", "0", "4">>),
     Failure(<<"e", "r", "r", " ", "4", "0", "4", "!">>),
     Failure(<<"4", "2", "9">>),
     Failure(<<"Q", "u", "o", "t", "a">>),
     Failure(<<"t", "i", "m", "e", "o", "u", "t">>)}

\* The lists of at most n elements of S.
ListsOf(S, n) == UNION {[1..k -> S] : k \in 0..n}

\* The skills of the skill lists: two spellings of one skill and two others.
SkillNames == {python, Python, tensorflow, pytorch}

\* The skill lists of at most MaxSkills skills, repetitions included.
SkillLists == {StrList(l) : l \in ListsOf(SkillNames, MaxSkills)}

\* The records _check_education is called with. Jobs: the domain absent,
\* accounting, a sub-tagged accounting domain and another family; the
\* strict_requirements flag absent, false and true.
EducationJobs ==
    {MkJob(d, Absent, Absent, st) :
        d \in {Absent, PyStr(accounting), PyStr(accounting \o <<"_", "t", "a", "x">>),
               PyStr(ai_ml)},
        st \in {Absent, False, True}}

\* Certifications: absent, no list, none, a required one in upper case, a
\* required one behind another, and one that only contains a required one.
EducationCertifications ==
    {Absent, None, StrList(<<>>), StrList(<<<<"C", "P", "A">>>>),
     StrList(<<<<"c", "f", "a">>, <<"A", "C", "C", "A">>>>),
     StrList(<<<<"m", "c", "p", "a">>>>)}

\* Education: absent, none, a fragment without a required token, a fragment
\* with one inside a word (Education), a token split over two fragments,
\* and a fragment that is a token.
EducationTexts ==
    {Absent, StrList(<<>>), StrList(<<<<"M", "B", "A">>>>),
     StrList(<<<<"B", "S", "c">>, <<"E", "d", "u", "c", "a", "t", "i", "o", "n">>>>),
     StrList(<<<<"c">>, <<"a">>>>),
     StrList(<<<<"d", "i", "p">>, <<"A", "C", "C", "A">>>>)}

\* The records _check_experience is called with: the domain absent, of each
\* of three families and of none; the years absent, None and 0 to
\* MaxExperienceYears; min_experience absent and 0 to MaxExperienceYears.
ExperienceDomains ==
    {Absent, PyStr(general), PyStr(accounting), PyStr(ai_ml), PyStr(marketing)}

ExperienceResumes ==
    {MkResume(d, Absent, y, Absent, Absent) :
        d \in ExperienceDomains,
        y \in {Absent, None} \cup {Num(k, 1) : k \in 0..MaxExperienceYears}}

ExperienceJobs ==
    {MkJob(d, Absent, m, Absent) :
        d \in ExperienceDomains,
        m \in {Absent} \cup {Num(k, 1) : k \in 0..MaxExperienceYears}}

\* The calls of match that differ in the embeddings only: resume embeddings
\* of cosine 3/5, 0, 1 and -1 to the first job embedding, and two job
\* embeddings; the scenario's records, compatible and incompatible pairs
\* and records match fails on.
BaseScoreResumeEmbeddings ==
    {IntList(<<3, 4>>), IntList(<<0, 1>>), IntList(<<1, 0>>), IntList(<<-1, 0>>)}

BaseScoreJobEmbeddings == {IntList(<<1, 0>>), IntList(<<0, 2>>)}

BaseScoreResumes == ScoredResumes \cup RankResumes

\* The records generate_explanation is called with. Records that hold
\* skills only, with every skill list:
SkillsOnlyResumes == {MkResume(Absent, l, Absent, Absent, Absent) : l \in SkillLists}

SkillsOnlyJobs == {MkJob(Absent, l, Absent, Absent) : l \in SkillLists}

\* and full records: the domain absent, of three families and of none;
\* skills absent, no list, and lists in and out of order; years below and
\* above the minimum; with and without a required certification.
ExplainedSkills ==
    {Absent, None, StrList(<<>>), StrList(<<python, tensorflow>>),
     StrList(<<Python, python, pytorch>>), StrList(<<tensorflow, pytorch, python>>)}

ExplainedResumes ==
    {MkResume(d, s, y, Absent, c) :
        d \in ExperienceDomains, s \in ExplainedSkills,
        y \in {Absent, Num(1, 1), Num(3, 1)},
        c \in {Absent, StrList(<<<<"C", "P", "A">>>>)}}

ExplainedJobs ==
    {MkJob(d, s, m, st) :
        d \in ExperienceDomains, s \in ExplainedSkills,
        m \in {Absent, Num(2, 1)}, st \in {False, True}}

\* The weights arguments of the matchers generate_explanation is called
\* on: none (the defaults), a dict without the education key and weights
\* that put education first.
ExplanationWeights ==
    WeightsArguments
    \cup {PyDict([domain |-> Num(1, 10), skills |-> Num(1, 10),
                  experience |-> Num(1, 10), education |-> Num(7, 10)])}

EducationResumes ==
    {MkResume(Absent, Absent, Absent, e, c) :
        e \in EducationTexts, c \in EducationCertifications}

(***************************************************************************)
(* The matcher and its callers                                             *)
(***************************************************************************)
\* No call is under way.
NoCall == [op |-> "none"]

\* A matcher constructed with one of the weights arguments W, beside an
\* extractor constructed without an API key; no call yet.
InitWith(W) ==
    /\ weights \in {InitWeights(w) : w \in W}
    /\ incompatible_domains = IncompatibleDomains
    /\ gemini_available = FALSE
    /\ call = NoCall
    /\ ret = None
    /\ pc = "idle"
    /\ i = 0
    /\ ranked = <<>>
    /\ attempts = <<>>

\* A call of _check_domain_compatibility.
CallCheckDomain ==
    /\ pc = "idle"
    /\ \E a \in GateDomains, b \in GateDomains :
          /\ call' = [resume_domain |-> a,
                      jd_domain |-> b, op |-> "_check_domain_compatibility"]
          /\ ret' = CheckDomainCompatibility(incompatible_domains, a, b)
    /\ pc' = "returned"
    /\ UNCHANGED <<weights, incompatible_domains, gemini_available, i, ranked, attempts>>

\* A call of match that first fills the keys missing from self.weights
\* with the defaults and keeps them.
MutCallMatchFillsWeights(RS, JS, RES, JES) ==
    /\ pc = "idle"
    /\ weights' = PyDict([key \in DOMAIN DefaultWeights.d \cup DOMAIN weights.d |->
                             IF key \in DOMAIN weights.d THEN weights.d[key]
                             ELSE DefaultWeights.d[key]])
    /\ \E resume_data \in RS, jd_data \in JS, resume_embedding \in RES, jd_embedding \in JES :
          /\ call' = [resume_data |-> resume_data, jd_data |-> jd_data,
                      resume_embedding |-> resume_embedding, jd_embedding |-> jd_embedding,
                      op |-> "match"]
          /\ ret' = Match(weights', incompatible_domains, resume_embedding,
                          jd_embedding, resume_data, jd_data)
    /\ pc' = "returned"
    /\ UNCHANGED <<incompatible_domains, gemini_available, i, ranked, attempts>>

\* A call of match with a resume of RS, a job of JS and embeddings of RES
\* and JES.
CallMatch(RS, JS, RES, JES) ==
    /\ pc = "idle"
    /\ \E resume_data \in RS, jd_data \in JS, resume_embedding \in RES, jd_embedding \in JES :
          /\ call' = [resume_data |-> resume_data, jd_data |-> jd_data,
                      resume_embedding |-> resume_embedding, jd_embedding |-> jd_embedding,
                      op |-> "match"]
          /\ ret' = Match(weights, incompatible_domains, resume_embedding,
                          jd_embedding, resume_data, jd_data)
    /\ pc' = "returned"
    /\ UNCHANGED <<weights, incompatible_domains, gemini_available, i, ranked, attempts>>

\* The caller takes the result; the matcher is ready for the next call.
Return ==
    /\ pc = "returned"
    /\ pc' = "idle"
    /\ call' = NoCall
    /\ ret' = None
    /\ i' = 0
    /\ ranked' = <<>>
    /\ attempts' = <<>>
    /\ UNCHANGED <<weights, incompatible_domains, gemini_available>>

\* rank_candidates is called: ranked = [].
RankBegin ==
    /\ pc = "idle"
    /\ \E resumes \in ListsOf(RankResumes, MaxResumes) :
          call' = [jd_data |-> ExampleJob, jd_embedding |-> IntList(<<1, 0>>),
                   op |-> "rank_candidates", resumes |-> resumes]
    /\ pc' = "loop"
    /\ i' = 0
    /\ ranked' = <<>>
    /\ attempts' = <<>>
    /\ UNCHANGED <<weights, incompatible_domains, gemini_available, ret>>

\* An iteration in which an exception ends the whole call.
MutRankStepAborts ==
    /\ pc = "loop"
    /\ i < Len(call.resumes)
    /\ LET resume == call.resumes[i + 1]
       IN  \E emb \in IF IsDict(resume) THEN EmbedderOutcomes ELSE {Absent} :
              LET entry == RankEntry(weights, incompatible_domains, resume, emb,
                                     call.jd_embedding, call.jd_data)
              IN  /\ attempts' = Append(attempts, [resume |-> resume, emb |-> emb])
                  /\ IF entry = Raised
                     THEN pc' = "returned" /\ ret' = Raised /\ UNCHANGED ranked
                     ELSE ranked' = Append(ranked, entry) /\ UNCHANGED <<pc, ret>>
    /\ i' = i + 1
    /\ UNCHANGED <<weights, incompatible_domains, gemini_available, call>>

\* One iteration of the loop: the embedder is called for the next resume
\* (unless reading its content raises) and either the tuple of its match
\* is appended or the exception is caught and the resume skipped.
RankStep ==
    /\ pc = "loop"
    /\ i < Len(call.resumes)
    /\ LET resume == call.resumes[i + 1]
       IN  \E emb \in IF IsDict(resume) THEN EmbedderOutcomes ELSE {Absent} :
              LET entry == RankEntry(weights, incompatible_domains, resume, emb,
                                     call.jd_embedding, call.jd_data)
              IN  /\ attempts' = Append(attempts, [resume |-> resume, emb |-> emb])
                  /\ ranked' = IF entry = Raised THEN ranked ELSE Append(ranked, entry)
    /\ i' = i + 1
    /\ UNCHANGED <<weights, incompatible_domains, gemini_available, call, ret, pc>>

\* The loop is over: the sorted list is returned.
RankReturn ==
    /\ pc = "loop"
    /\ i = Len(call.resumes)
    /\ ret' = PyList(SortedByScore(ranked))
    /\ pc' = "returned"
    /\ UNCHANGED <<weights, incompatible_domains, gemini_available, call, i, ranked, attempts>>

\* A call of rank_resumes of src/app/services/matcher: match returns a
\* score for each resume or raises, top_k is given or left to its default.
CallRankResumes ==
    /\ pc = "idle"
    /\ \E scores \in ListsOf(LegacyMatchOutcomes, MaxResumes), top_k \in TopKs :
          /\ call' = [scores |-> scores, top_k |-> top_k, op |-> "rank_resumes"]
          /\ ret' = LegacyRankResumes(scores, top_k)
    /\ pc' = "returned"
    /\ UNCHANGED <<weights, incompatible_domains, gemini_available, i, ranked, attempts>>

\* A call of rank_candidates with a top_k argument: the signature of line
\* 191 has no such parameter, so binding the arguments raises TypeError
\* before the body runs.
CallRankCandidatesTopK ==
    /\ pc = "idle"
    /\ \E resumes \in ListsOf(RankResumes, MaxResumes), top_k \in TopKs \ {Absent} :
          call' = [jd_data |-> ExampleJob, jd_embedding |-> IntList(<<1, 0>>),
                   top_k |-> top_k, op |-> "rank_candidates",
                   resumes |-> resumes]
    /\ ret' = Raised
    /\ pc' = "returned"
    /\ UNCHANGED <<weights, incompatible_domains, gemini_available, i, ranked, attempts>>

\* extract_fields or extract_job_requirements is called: {} at once when
\* Gemini is not available, and when building the prompt raises (the
\* handler of _extract_with_gemini returns {}); else the loop over the
\* models begins.
CallExtract ==
    /\ pc = "idle"
    /\ \E op \in ExtractOps, text \in ExtractTexts :
          /\ call' = [text |-> text, op |-> op]
          /\ IF ~gemini_available \/ ~IsStr(text)
             THEN ret' = EmptyDict /\ pc' = "returned"
             ELSE ret' = ret /\ pc' = "chain"
    /\ i' = 0
    /\ attempts' = <<>>
    /\ UNCHANGED <<weights, incompatible_domains, gemini_available, ranked>>

\* The next model is tried. Its parsed response is returned; on a 404
\* the loop goes on; any other exception reaches the outer handler, which
\* returns {}.
ChainStep ==
    /\ pc = "chain"
    /\ i < Len(model_names)
    /\ \E outcome \in ModelOutcomes :
          LET step == TryModel(outcome)
          IN  /\ attempts' = Append(attempts, [outcome |-> outcome,
                                               model |-> model_names[i + 1]])
              /\ IF step.do = "continue" THEN UNCHANGED <<pc, ret>>
                 ELSE /\ pc' = "returned"
                      /\ ret' = IF step.do = "return" THEN step.value ELSE EmptyDict
    /\ i' = i + 1
    /\ UNCHANGED <<weights, incompatible_domains, gemini_available, call, ranked>>

\* Every model raised a 404: the loop is over and the function ends
\* without a return statement, so the call returns None.
ChainEnd ==
    /\ pc = "chain"
    /\ i = Len(model_names)
    /\ ret' = None
    /\ pc' = "returned"
    /\ UNCHANGED <<weights, incompatible_domains, gemini_available, call, i, ranked,
                   attempts>>

\* A call of _calculate_skills_match.
CallSkillsMatch ==
    /\ pc = "idle"
    /\ \E resume_skills \in SkillLists, jd_skills \in SkillLists :
          /\ call' = [resume_skills |-> resume_skills,
                      jd_skills |-> jd_skills, op |-> "_calculate_skills_match"]
          /\ ret' = CalculateSkillsMatch(resume_skills, jd_skills)
    /\ pc' = "returned"
    /\ UNCHANGED <<weights, incompatible_domains, gemini_available, i, ranked, attempts>>

\* A call of _check_education.
CallCheckEducation ==
    /\ pc = "idle"
    /\ \E resume_data \in EducationResumes, jd_data \in EducationJobs :
          /\ call' = [resume_data |-> resume_data,
                      jd_data |-> jd_data, op |-> "_check_education"]
          /\ ret' = CheckEducation(resume_data, jd_data)
    /\ pc' = "returned"
    /\ UNCHANGED <<weights, incompatible_domains, gemini_available, i, ranked, attempts>>

\* A call of _check_experience.
CallCheckExperience ==
    /\ pc = "idle"
    /\ \E resume_data \in ExperienceResumes, jd_data \in ExperienceJobs :
          /\ call' = [resume_data |-> resume_data,
                      jd_data |-> jd_data, op |-> "_check_experience"]
          /\ ret' = CheckExperience(incompatible_domains, resume_data, jd_data)
    /\ pc' = "returned"
    /\ UNCHANGED <<weights, incompatible_domains, gemini_available, i, ranked, attempts>>

\* A call of generate_explanation with a resume of RS and a job of JS.
CallGenerateExplanation(RS, JS) ==
    /\ pc = "idle"
    /\ \E resume_data \in RS, jd_data \in JS :
          /\ call' = [resume_data |-> resume_data,
                      jd_data |-> jd_data, op |-> "generate_explanation"]
          /\ ret' = GenerateExplanation(incompatible_domains, resume_data, jd_data)
    /\ pc' = "returned"
    /\ UNCHANGED <<weights, incompatible_domains, gemini_available, i, ranked, attempts>>

(***************************************************************************)
(* The gate on its own                                                     *)
(***************************************************************************)
GateInit == InitWith({None})

GateNext == CallCheckDomain \/ Return

GateSpec == GateInit /\ [][GateNext]_vars

(***************************************************************************)
(* match on its own                                                        *)
(***************************************************************************)
MatchInit == InitWith(WeightsArguments)

CallMatchRecords == CallMatch(ResumeRecords, JobRecords, ResumeEmbeddings, JobEmbeddings)

MatchNext == CallMatchRecords \/ Return

MatchSpec == MatchInit /\ [][MatchNext]_vars

(***************************************************************************)
(* match under every weight configuration                                  *)
(***************************************************************************)
WeightedInit == InitWith(WeightConfigurations)

CallMatchScored ==
    CallMatch(ScoredResumes, ScoredJobs, {IntList(<<3, 4>>)}, {IntList(<<1, 0>>)})

WeightedNext == CallMatchScored \/ Return

WeightedSpec == WeightedInit /\ [][WeightedNext]_vars

(***************************************************************************)
(* rank_candidates on its own, and with the loop running to its end        *)
(***************************************************************************)
RankInit == InitWith({None})

RankNext == RankBegin \/ RankStep \/ RankReturn \/ Return

RankSpec == RankInit /\ [][RankNext]_vars

\* The loop is sequential code: an iteration that can run runs, provided
\* the embedder returns or raises.
FairRankSpec == RankSpec /\ WF_vars(RankStep) /\ WF_vars(RankReturn)

(***************************************************************************)
(* _calculate_skills_match on its own                                      *)
(***************************************************************************)
SkillsInit == InitWith({None})

SkillsNext == CallSkillsMatch \/ Return

SkillsSpec == SkillsInit /\ [][SkillsNext]_vars

(***************************************************************************)
(* _check_education on its own                                             *)
(***************************************************************************)
EducationInit == InitWith({None})

EducationNext == CallCheckEducation \/ Return

EducationSpec == EducationInit /\ [][EducationNext]_vars

(***************************************************************************)
(* _check_experience on its own                                            *)
(***************************************************************************)
ExperienceInit == InitWith({None})

ExperienceNext == CallCheckExperience \/ Return

ExperienceSpec == ExperienceInit /\ [][ExperienceNext]_vars

(***************************************************************************)
(* match on the same records under different embeddings                    *)
(***************************************************************************)
BaseScoreInit == InitWith(WeightsArguments)

CallMatchEmbeddings ==
    CallMatch(BaseScoreResumes, ScoredJobs, BaseScoreResumeEmbeddings,
              BaseScoreJobEmbeddings)

BaseScoreNext == CallMatchEmbeddings \/ Return

BaseScoreSpec == BaseScoreInit /\ [][BaseScoreNext]_vars

(***************************************************************************)
(* generate_explanation on its own                                         *)
(***************************************************************************)
ExplanationInit == InitWith({None})

CallExplainSkills == CallGenerateExplanation(SkillsOnlyResumes, SkillsOnlyJobs)

CallExplainRecords == CallGenerateExplanation(ExplainedResumes, ExplainedJobs)

ExplanationNext == CallExplainSkills \/ CallExplainRecords \/ Return

ExplanationSpec == ExplanationInit /\ [][ExplanationNext]_vars

(***************************************************************************)
(* generate_explanation on matchers of different weights                   *)
(***************************************************************************)
WeightedExplanationInit == InitWith(ExplanationWeights)

WeightedExplanationNext == CallExplainRecords \/ Return

WeightedExplanationSpec == WeightedExplanationInit /\ [][WeightedExplanationNext]_vars

(***************************************************************************)
(* match and rank_candidates on a matcher of the default weights           *)
(***************************************************************************)
DefaultWeightsInit == InitWith({None})

DefaultWeightsNext ==
    CallMatchRecords \/ RankBegin \/ RankStep \/ RankReturn \/ Return

DefaultWeightsSpec == DefaultWeightsInit /\ [][DefaultWeightsNext]_vars

(***************************************************************************)
(* Sessions of match, generate_explanation and rank_candidates on one      *)
(* matcher                                                                 *)
(***************************************************************************)
SessionInit == InitWith(WeightsArguments)

SessionNext ==
    \/ CallMatchEmbeddings
    \/ CallExplainRecords
    \/ RankBegin
    \/ RankStep
    \/ RankReturn
    \/ Return

SessionSpec == SessionInit /\ [][SessionNext]_vars

(***************************************************************************)
(* Rankings with a top_k argument                                          *)
(***************************************************************************)
TopKInit == InitWith({None})

TopKNext == CallRankResumes \/ CallRankCandidatesTopK \/ Return

TopKSpec == TopKInit /\ [][TopKNext]_vars

(***************************************************************************)
(* The extractor, with and without a configured Gemini client              *)
(***************************************************************************)
ExtractorInit ==
    /\ weights = DefaultWeights
    /\ incompatible_domains = IncompatibleDomains
    /\ gemini_available \in BOOLEAN
    /\ call = NoCall
    /\ ret = None
    /\ pc = "idle"
    /\ i = 0
    /\ ranked = <<>>
    /\ attempts = <<>>

ExtractorNext == CallExtract \/ ChainStep \/ ChainEnd \/ Return

ExtractorSpec == ExtractorInit /\ [][ExtractorNext]_vars

(***************************************************************************)
(* A matcher and every call on it                                          *)
(***************************************************************************)
Init == InitWith(WeightsArguments)

Next ==
    \/ CallCheckDomain
    \/ CallMatchRecords
    \/ CallMatchEmbeddings
    \/ CallSkillsMatch
    \/ CallCheckEducation
    \/ CallCheckExperience
    \/ CallExplainSkills
    \/ CallExplainRecords
    \/ RankBegin
    \/ RankStep
    \/ RankReturn
    \/ CallRankCandidatesTopK
    \/ Return

Spec == Init /\ [][Next]_vars

(***************************************************************************)
(* Properties                                                              *)
(***************************************************************************)
GateReturned == pc = "returned" /\ call.op = "_check_domain_compatibility"

MatchReturned == pc = "returned" /\ call.op = "match"

ScoreOf(result) == result.d.score

DetailOf(result, key) == result.d.details.d[key]

SubScoreKeys == {"domain_match", "skills_match", "education_match", "experience_match"}

\* The gate's verdict on the domains match reads from the two records of
\* the call (an absent domain is general).
MatchGateVerdict ==
    IF ~IsDict(call.resume_data) \/ ~IsDict(call.jd_data) THEN Raised
    ELSE CheckDomainCompatibility(incompatible_domains,
                                  Get(call.resume_data, "domain", PyStr(general)),
                                  Get(call.jd_data, "domain", PyStr(general)))

\* Whether the try block of the call's match raised.
MatchFailed ==
    MatchTry(weights, incompatible_domains, call.resume_embedding, call.jd_embedding,
             call.resume_data, call.jd_data) = Raised

FiniteWeights ==
    \A key \in {"domain", "skills", "education", "experience"} : weights.d[key].t = "num"

\* The weighted sum of the sub-scores the result reports in its details.
WeightedSumOfDetails ==
    Add(Add(Add(Mul(DetailOf(ret, "domain_match"), weights.d.domain),
                Mul(DetailOf(ret, "skills_match"), weights.d.skills)),
            Mul(DetailOf(ret, "education_match"), weights.d.education)),
        Mul(DetailOf(ret, "experience_match"), weights.d.experience))

InUnitInterval(x) == x.t = "num" /\ 0 <= x.n /\ x.n <= x.d

\* x brought into [0, 1].
Clamped(x) == IF x.n < 0 THEN Zero ELSE IF x.n > x.d THEN One ELSE x

TableKeys == {accounting, ai_ml, engineering, general}

StartsWithNoKey(d) == \A key \in TableKeys : ~StartsWith(d.s, key)

\* C1: for every resume/job pair whose domains the gate rejects, with
\* well-formed embeddings, match returns score 0.0 and domain_match,
\* skills_match, education_match and experience_match 0.0, whatever the
\* other fields are, and base_score is the cosine similarity of the two
\* embeddings (3/5 for [3, 4] and [1, 0]).
IncompatibleScoresZero ==
    (/\ MatchReturned
     /\ CosineSimilarity(call.resume_embedding, call.jd_embedding) # Raised
     /\ MatchGateVerdict = False)
    => /\ ScoreOf(ret) = Zero
       /\ \A key \in SubScoreKeys : DetailOf(ret, key) = Zero
       /\ DetailOf(ret, "base_score")
             = CosineSimilarity(call.resume_embedding, call.jd_embedding)
       /\ (call.resume_embedding = IntList(<<3, 4>>) /\ call.jd_embedding = IntList(<<1, 0>>))
             => DetailOf(ret, "base_score") = Num(3, 5)

\* An accounting resume with every required skill and a non-zero base score
\* against an ai_ml job: score 0.0.
WitnessIncompatibleScoresZero ==
    /\ MatchReturned
    /\ IsDict(call.resume_data) /\ IsDict(call.jd_data)
    /\ Get(call.resume_data, "domain", None) = PyStr(accounting)
    /\ Get(call.jd_data, "domain", None) = PyStr(ai_ml)
    /\ Get(call.resume_data, "skills", None) = StrList(<<Python, python, pytorch>>)
    /\ Get(call.jd_data, "required_skills", None) = StrList(<<python, pytorch>>)
    /\ DetailOf(ret, "base_score") = Num(3, 5)
    /\ ScoreOf(ret) = Zero

ScoreWithinUnitInterval ==
    MatchReturned
    => /\ InUnitInterval(ScoreOf(ret))
       /\ (/\ FiniteWeights
           /\ \A key \in DOMAIN weights.d : weights.d[key].n >= 0
           /\ ~Lt(One, Add(Add(weights.d.domain, weights.d.skills),
                           Add(weights.d.education, weights.d.experience))))
          => /\ \A key \in SubScoreKeys : InUnitInterval(DetailOf(ret, key))
             /\ InUnitInterval(WeightedSumOfDetails)
             /\ ScoreOf(ret) = WeightedSumOfDetails

\* A weighted sum above 1 that match returns as 1.0.
WitnessScoreWithinUnitInterval ==
    /\ MatchReturned
    /\ FiniteWeights
    /\ Lt(One, WeightedSumOfDetails)
    /\ ScoreOf(ret) = One

\* C6: match never raises: it returns a result, and when anything raised in
\* its try block (among others: malformed embeddings, a record that is no
\* dict, a missing weight key or skills that are no list once the gate has
\* passed) the result has score 0.0 and base_score, domain_match,
\* skills_match, education_match and experience_match 0.0.
MatchNeverRaises ==
    MatchReturned
    => /\ ret # Raised
       /\ IsDict(ret)
       /\ (\/ MatchFailed
           \/ CosineSimilarity(call.resume_embedding, call.jd_embedding) = Raised
           \/ ~IsDict(call.resume_data)
           \/ ~IsDict(call.jd_data)
           \/ (MatchGateVerdict = True /\ "education" \notin DOMAIN weights.d)
           \/ (/\ MatchGateVerdict = True
               /\ Get(call.resume_data, "skills", None) = None
               /\ Get(call.jd_data, "required_skills", None) = StrList(<<python, pytorch>>)))
          => /\ ScoreOf(ret) = Zero
             /\ \A key \in SubScoreKeys \cup {"base_score"} : DetailOf(ret, key) = Zero

\* A pair of compatible domains and embeddings of cosine 3/5 whose resume
\* skills are None: the zero result, base_score included.
WitnessMatchNeverRaises ==
    /\ MatchReturned
    /\ weights = DefaultWeights
    /\ call.resume_embedding = IntList(<<3, 4>>)
    /\ call.jd_embedding = IntList(<<1, 0>>)
    /\ MatchGateVerdict = True
    /\ Get(call.resume_data, "skills", Absent) = None
    /\ Get(call.jd_data, "required_skills", Absent) = StrList(<<python, pytorch>>)
    /\ ScoreOf(ret) = Zero
    /\ DetailOf(ret, "base_score") = Zero

\* C9: the gate is reflexive: it returns True for every domain string
\* against itself, whether or not the string starts with a key of the table.
GateReflexive ==
    (GateReturned /\ IsStr(call.resume_domain) /\ call.resume_domain = call.jd_domain)
    => ret = True

\* The empty string, which starts with no key, against itself.
WitnessGateReflexive ==
    /\ GateReturned
    /\ call.resume_domain = PyStr(<<>>)
    /\ call.jd_domain = PyStr(<<>>)
    /\ ret = True

\* C10: the gate fails closed: for two different domain strings neither of
\* which starts with a key of the table it returns False.
GateFailsClosed ==
    (/\ GateReturned
     /\ IsStr(call.resume_domain) /\ IsStr(call.jd_domain)
     /\ call.resume_domain # call.jd_domain
     /\ StartsWithNoKey(call.resume_domain) /\ StartsWithNoKey(call.jd_domain))
    => ret = False

\* marketing against sales.
WitnessGateFailsClosed ==
    /\ GateReturned
    /\ call.resume_domain = PyStr(marketing)
    /\ call.jd_domain = PyStr(sales)
    /\ ret = False

RankRunning == call.op = "rank_candidates" /\ pc \in {"loop", "returned"}

RankReturned == call.op = "rank_candidates" /\ pc = "returned"

\* Whether the embedder returned an embedding for the k-th resume.
Embedded(k) == attempts[k].emb \notin {Raised, Absent}

\* The resumes the embedder returned an embedding for, by their place in
\* the input, ascending.
EmbeddedIndices ==
    SelectSeq([k \in 1..Len(attempts) |-> k], LAMBDA k : Embedded(k))

\* Whether match's try block raises for the k-th resume.
MatchFailedFor(k) ==
    MatchTry(weights, incompatible_domains, attempts[k].emb, call.jd_embedding,
             call.resumes[k], call.jd_data) = Raised

\* The tuple of what match returns for the k-th resume on its own, with
\* the embedding the embedder returned for it.
EntryAlone(k) ==
    LET m == Match(weights, incompatible_domains, attempts[k].emb,
                   call.jd_embedding, call.resumes[k], call.jd_data)
    IN  <<ScoreOf(m), call.resumes[k], m.d.details>>

IndexPermutations(n) == {p \in [1..n -> 1..n] : \A a, b \in 1..n : a # b => p[a] # p[b]}

\* C4: the list rank_candidates returns is sorted by score, descending, and
\* entries of the same score are in the order of their resumes in the input.
RankingSortedAndStable ==
    RankReturned
    => LET out == ret.l
           idx == EmbeddedIndices
       IN  /\ Len(out) = Len(idx)
           /\ \A j \in 1..(Len(out) - 1) : ~Lt(out[j][1], out[j + 1][1])
           /\ \E p \in IndexPermutations(Len(out)) :
                 /\ \A j \in 1..Len(out) :
                       /\ out[j] = ranked[p[j]]
                       /\ out[j][2] = call.resumes[idx[p[j]]]
                 /\ \A j, l \in 1..Len(out) :
                       (j < l /\ out[j][1] = out[l][1]) => idx[p[j]] < idx[p[l]]

\* Three entries, the sort has moved one, and the first two are different
\* entries of the same score.
WitnessRankingSortedAndStable ==
    /\ RankReturned
    /\ Len(ret.l) = 3
    /\ ret.l # ranked
    /\ ret.l[1][1] = ret.l[2][1]
    /\ ret.l[1] # ret.l[2]
    /\ Lt(ret.l[3][1], ret.l[2][1])

\* C5 as stated: the output holds exactly the resumes for which neither the
\* embedder nor the match pipeline failed.
RankOutputIsExactlyTheValid ==
    RankReturned
    => LET valid == {k \in 1..Len(attempts) : Embedded(k) /\ ~MatchFailedFor(k)}
       IN  /\ Len(ret.l) = Cardinality(valid)
           /\ \A j \in 1..Len(ret.l) : \E k \in valid : ret.l[j] = EntryAlone(k)

\* C5 as amended: the output holds exactly the resumes for which reading
\* the content and the embedder call did not raise, so its length is their
\* number; a resume whose match fails inside match is kept, with score 0.0
\* and all details 0.0.
RankExcludesEmbedderFailures ==
    RankReturned
    => LET embedded == {k \in 1..Len(attempts) : Embedded(k)}
       IN  /\ Len(attempts) = Len(call.resumes)
           /\ Len(ret.l) = Cardinality(embedded)
           /\ \A j \in 1..Len(ret.l) : \E k \in embedded : ret.l[j] = EntryAlone(k)
           /\ \A k \in embedded : \E j \in 1..Len(ret.l) : ret.l[j] = EntryAlone(k)
           /\ \A k \in embedded :
                 MatchFailedFor(k)
                 => \E j \in 1..Len(ret.l) :
                       ret.l[j] = <<Zero, call.resumes[k], ZeroResult.d.details>>

\* A resume that is no dict, a resume whose skills are no list and a resume
\* the embedder raises for: the output is the second, with score 0.0.
WitnessRankExcludesEmbedderFailures ==
    /\ RankReturned
    /\ Len(call.resumes) = 3
    /\ call.resumes[1] = None
    /\ Get(call.resumes[2], "skills", Absent) = None
    /\ attempts[2].emb = IntList(<<3, 4>>)
    /\ attempts[3].emb = Raised
    /\ Len(ret.l) = 1
    /\ ret.l[1][1] = Zero
    /\ ret.l[1][2] = call.resumes[2]

\* C7: no failure is fatal to a ranking: the resumes are attempted once
\* each, in input order, whatever the embedder and match do; the call
\* returns a list, and then every resume has been attempted and every resume
\* the embedder returned an embedding for has been scored, the ones behind
\* a failure too; and every call that has begun returns.
RankAttemptsInOrder ==
    RankRunning
    => /\ Len(attempts) = i
       /\ i <= Len(call.resumes)
       /\ \A k \in 1..i : attempts[k].resume = call.resumes[k]
       /\ Len(ranked) = Len(EmbeddedIndices)
       /\ pc = "returned"
          => /\ i = Len(call.resumes)
             /\ IsList(ret)
             /\ Len(ret.l) = Len(EmbeddedIndices)

RankNeverFatal ==
    /\ [](RankAttemptsInOrder)
    /\ (call.op = "rank_candidates" /\ pc = "loop") ~> RankReturned

\* A ranking returned although the first resume is no dict and the embedder
\* raised for the second: the third is scored.
WitnessRankNeverFatal ==
    /\ RankReturned
    /\ Len(call.resumes) = 3
    /\ call.resumes[1] = None
    /\ attempts[2].emb = Raised
    /\ Embedded(3)
    /\ Len(ret.l) = 1
    /\ ret.l[1][2] = call.resumes[3]

\* C8: what rank_candidates reports for a resume is what match returns for
\* that resume alone, with the job, the job embedding and the embedding the
\* embedder returned for it: the entries appended so far, and the entries
\* returned, are the tuples of match on each embedded resume, whatever the
\* other resumes of the batch are and wherever they stand.
ScoresIndependentOfBatch ==
    RankRunning
    => /\ Len(ranked) = Len(EmbeddedIndices)
       /\ \A j \in 1..Len(ranked) : ranked[j] = EntryAlone(EmbeddedIndices[j])
       /\ pc = "returned"
          => /\ Len(ret.l) = Len(EmbeddedIndices)
             /\ \E p \in IndexPermutations(Len(ret.l)) :
                   \A j \in 1..Len(ret.l) : ret.l[j] = EntryAlone(EmbeddedIndices[p[j]])

\* The scenario's resume, scored 5/6, returned with a resume scored 0.0 and
\* without a resume that is no dict.
WitnessScoresIndependentOfBatch ==
    /\ RankReturned
    /\ Len(call.resumes) = 3
    /\ None \in {call.resumes[k] : k \in 1..3}
    /\ Len(ret.l) = 2
    /\ ret.l[1][2] = ExampleResume
    /\ ret.l[1][1] = Num(5, 6)
    /\ ret.l[2][1] = Zero

\* Whether the domain d is of the family of key: d starts with key.
InFamily(d, key) == IsStr(d) /\ StartsWith(d.s, key)

\* C11: general is compatible with everything: the gate returns True for
\* every pair of domain strings one of which starts with general, in both
\* argument orders.
GeneralCompatibleWithAll ==
    (/\ GateReturned
     /\ IsStr(call.resume_domain) /\ IsStr(call.jd_domain)
     /\ (InFamily(call.resume_domain, general) \/ InFamily(call.jd_domain, general)))
    => ret = True

\* A domain of no family against a sub-tagged general domain: the loop
\* reaches the last key of the table.
WitnessGeneralCompatibleWithAll ==
    /\ GateReturned
    /\ call.resume_domain = PyStr(marketing)
    /\ call.jd_domain = PyStr(general \o <<"_", "i", "t">>)
    /\ ret = True

\* C12: exclusions apply by family prefix in both directions: a domain
\* starting with accounting against a domain starting with ai_ml or
\* engineering gives False in both argument orders, and a domain starting
\* with ai_ml against a domain starting with engineering gives True in both.
ExclusionsByFamilyPrefix ==
    (GateReturned /\ IsStr(call.resume_domain) /\ IsStr(call.jd_domain))
    => LET a == call.resume_domain
           b == call.jd_domain
           Excluded(x, y) ==
               InFamily(x, accounting) /\ (InFamily(y, ai_ml) \/ InFamily(y, engineering))
           Allowed(x, y) == InFamily(x, ai_ml) /\ InFamily(y, engineering)
       IN  /\ (Excluded(a, b) \/ Excluded(b, a)) => ret = False
           /\ (Allowed(a, b) \/ Allowed(b, a)) => ret = True

\* engineering_electrical against accounting_tax: neither is a key, both
\* inherit their family's rule.
WitnessExclusionsByFamilyPrefix ==
    /\ GateReturned
    /\ call.resume_domain = PyStr(engineering_electrical)
    /\ call.jd_domain = PyStr(accounting \o <<"_", "t", "a", "x">>)
    /\ ret = False

\* The gate's verdict on the domains _check_experience reads from the two
\* records of the call (an absent domain is the empty string).
ExperienceGateVerdict ==
    IF ~IsDict(call.resume_data) \/ ~IsDict(call.jd_data) THEN Raised
    ELSE CheckDomainCompatibility(incompatible_domains,
                                  Get(call.resume_data, "domain", PyStr(<<>>)),
                                  Get(call.jd_data, "domain", PyStr(<<>>)))

\* C13: within one call of match the gate gives the same verdict both
\* times: whenever match reports domain_match = 1.0, the gate as evaluated
\* inside _check_experience finds the pair compatible too, so
\* experience_match is not forced to 0.0 by the gate; records without a
\* domain field included.
GateVerdictsAgree ==
    (MatchReturned /\ ~MatchFailed /\ DetailOf(ret, "domain_match") = One)
    => /\ MatchGateVerdict = True
       /\ ExperienceGateVerdict = True

\* A resume without a domain, of enough years, against a marketing job:
\* match reads general and passes the gate, _check_experience reads the
\* empty string and is rejected, so experience_match is 0.0 beside
\* domain_match = 1.0.
WitnessGateVerdictsDisagree ==
    /\ MatchReturned
    /\ IsDict(call.resume_data) /\ IsDict(call.jd_data)
    /\ Get(call.resume_data, "domain", Absent) = Absent
    /\ Get(call.jd_data, "domain", Absent) = PyStr(marketing)
    /\ Get(call.resume_data, "years_of_experience", Absent) = Num(3, 1)
    /\ Get(call.jd_data, "min_experience", Absent) = Num(2, 1)
    /\ DetailOf(ret, "domain_match") = One
    /\ DetailOf(ret, "experience_match") = Zero
    /\ MatchGateVerdict = True
    /\ ExperienceGateVerdict = False

SkillsReturned == pc = "returned" /\ call.op = "_calculate_skills_match"

\* The set of the lower-cased strings of a list of strs.
LowerCased(x) == {Lower(x.l[k].s) : k \in 1..Len(x.l)}

\* C14: _calculate_skills_match returns the Jaccard similarity of the
\* lower-cased resume skill set and the lower-cased required-skill set,
\* duplicates and case variants counted once, a value in [0, 1]; it returns
\* 0.0 when the required-skill list is empty, whatever the resume skill
\* list, and never divides by zero (never raises).
SkillsMatchIsJaccard ==
    SkillsReturned
    => LET A == LowerCased(call.resume_skills)
           B == LowerCased(call.jd_skills)
       IN  /\ ret # Raised
           /\ InUnitInterval(ret)
           /\ Len(call.jd_skills.l) = 0 => ret = Zero
           /\ Len(call.jd_skills.l) > 0
                 => /\ Cardinality(A \cup B) > 0
                    /\ ret.n * Cardinality(A \cup B) = ret.d * Cardinality(A \cap B)

\* [Python, python, pytorch] against [python, tensorflow]: the two spellings
\* count once, 1 of 3.
WitnessSkillsMatchIsJaccard ==
    /\ SkillsReturned
    /\ call.resume_skills = StrList(<<Python, python, pytorch>>)
    /\ call.jd_skills = StrList(<<python, tensorflow>>)
    /\ ret = Num(1, 3)

\* C15: skills match is symmetric: _calculate_skills_match(R, J) equals
\* _calculate_skills_match(J, R) for all skill lists, either or both empty
\* included.
SkillsMatchSymmetric ==
    SkillsReturned
    => ret = CalculateSkillsMatch(call.jd_skills, call.resume_skills)

\* A resume with skills against a job without: 0.0 by the early return, and
\* 0.0 by the empty intersection the other way round.
WitnessSkillsMatchSymmetric ==
    /\ SkillsReturned
    /\ call.resume_skills = StrList(<<python, pytorch>>)
    /\ call.jd_skills = StrList(<<>>)
    /\ ret = Zero
    /\ CalculateSkillsMatch(call.jd_skills, call.resume_skills) = Zero

EducationReturned == pc = "returned" /\ call.op = "_check_education"

ExperienceReturned == pc = "returned" /\ call.op = "_check_experience"

\* C17: _check_experience returns 0.0 when the gate rejects the two
\* domains; otherwise 1.0 when min_experience is 0 (or absent) or the years
\* are at least min_experience; otherwise 0.5 * years / min_experience,
\* which is below 0.5 for every under-qualified candidate. With
\* min_experience 5, 5 years give 1.0 and 2 years give 0.2. Years and
\* min_experience are non-negative integers.
ExperienceIsThresholdWithHalfRamp ==
    ExperienceReturned
    => LET years == Get(call.resume_data, "years_of_experience", Zero)
           min_experience == Get(call.jd_data, "min_experience", Zero)
           rejected == ExperienceGateVerdict = False
           under == ~rejected /\ min_experience # Zero /\ years.t = "num"
                    /\ years.n * min_experience.d < min_experience.n * years.d
       IN  /\ rejected => ret = Zero
           /\ (~rejected /\ min_experience = Zero) => ret = One
           /\ (~rejected /\ years.t = "num" /\ ~under) => ret = One
           /\ under
                 => /\ ret.t = "num"
                    /\ 2 * ret.n * min_experience.n * years.d
                          = ret.d * years.n * min_experience.d
                    /\ 2 * ret.n < ret.d
           /\ (~rejected /\ min_experience = Num(5, 1))
                 => /\ years = Num(5, 1) => ret = One
                    /\ years = Num(2, 1) => ret = Num(2, 10)

\* Two years against a minimum of five, both records of the domain ai_ml:
\* 0.2.
WitnessExperienceIsThresholdWithHalfRamp ==
    /\ ExperienceReturned
    /\ Get(call.resume_data, "domain", Absent) = PyStr(ai_ml)
    /\ Get(call.jd_data, "domain", Absent) = PyStr(ai_ml)
    /\ Get(call.resume_data, "years_of_experience", Absent) = Num(2, 1)
    /\ Get(call.jd_data, "min_experience", Absent) = Num(5, 1)
    /\ ret = Num(1, 5)

\* C18: the embedding similarity is diagnostic only: match on the same
\* records with any other pair of well-formed embeddings returns the same
\* score and the same domain_match, skills_match, education_match and
\* experience_match; only base_score may differ.
BaseScoreIsDiagnosticOnly ==
    (/\ MatchReturned
     /\ CosineSimilarity(call.resume_embedding, call.jd_embedding) # Raised)
    => \A resume_embedding \in BaseScoreResumeEmbeddings,
          jd_embedding \in BaseScoreJobEmbeddings :
          CosineSimilarity(resume_embedding, jd_embedding) # Raised
          => LET other == Match(weights, incompatible_domains, resume_embedding,
                                jd_embedding, call.resume_data, call.jd_data)
             IN  /\ ScoreOf(other) = ScoreOf(ret)
                 /\ \A key \in SubScoreKeys : DetailOf(other, key) = DetailOf(ret, key)

\* The scenario under embeddings of cosine -1: the score is the 5/6 it has
\* under embeddings of cosine 3/5.
WitnessBaseScoreIsDiagnosticOnly ==
    /\ MatchReturned
    /\ call.resume_data = ExampleResume
    /\ call.jd_data = ExampleJob
    /\ weights = DefaultWeights
    /\ call.resume_embedding = IntList(<<-1, 0>>)
    /\ call.jd_embedding = IntList(<<1, 0>>)
    /\ DetailOf(ret, "base_score") = Num(-1, 1)
    /\ ScoreOf(ret) = Num(5, 6)
    /\ ScoreOf(Match(weights, incompatible_domains, IntList(<<3, 4>>), IntList(<<1, 0>>),
                      call.resume_data, call.jd_data)) = Num(5, 6)

ExplanationReturned == pc = "returned" /\ call.op = "generate_explanation"

\* The strs of a list of strs.
StrsOf(list) == {list.l[k].s : k \in 1..Len(list.l)}

\* Whether a list of strs is in ascending order without a repetition.
StrictlyAscending(list) ==
    \A k \in 1..(Len(list.l) - 1) : StrLt(list.l[k].s, list.l[k + 1].s)

\* C19: generate_explanation returns matched_skills = the lower-cased
\* required skills that are lower-cased resume skills and missing_skills =
\* the lower-cased required skills that are not, each ascending and without
\* duplicates; the two are disjoint and together hold exactly the
\* lower-cased required skills.
ExplanationSkillsPartition ==
    (ExplanationReturned /\ ret # Raised)
    => LET required == LowerCased(Get(call.jd_data, "required_skills", PyList(<<>>)))
           resume == LowerCased(Get(call.resume_data, "skills", PyList(<<>>)))
           matched == ret.d.matched_skills
           missing == ret.d.missing_skills
       IN  /\ StrsOf(matched) = required \cap resume
           /\ StrsOf(missing) = required \ resume
           /\ StrictlyAscending(matched)
           /\ StrictlyAscending(missing)
           /\ StrsOf(matched) \cap StrsOf(missing) = {}
           /\ StrsOf(matched) \cup StrsOf(missing) = required

\* Required [tensorflow, pytorch, python] against [Python, python, pytorch]:
\* matched [python, pytorch], in another order than in either list, and
\* missing [tensorflow].
WitnessExplanationSkillsPartition ==
    /\ ExplanationReturned
    /\ Get(call.jd_data, "required_skills", Absent)
          = StrList(<<tensorflow, pytorch, python>>)
    /\ Get(call.resume_data, "skills", Absent) = StrList(<<Python, python, pytorch>>)
    /\ ret # Raised
    /\ ret.d.matched_skills = StrList(<<python, pytorch>>)
    /\ ret.d.missing_skills = StrList(<<tensorflow>>)

\* What match returns for the records of the call, under well-formed
\* embeddings.
MatchOfExplained ==
    Match(weights, incompatible_domains, IntList(<<3, 4>>), IntList(<<1, 0>>),
          call.resume_data, call.jd_data)

\* C20: the explanation is consistent with the numeric score: for every
\* resume/job pair the education_score and the experience_score of
\* generate_explanation equal the education_match and the experience_match
\* in the details match returns for the same pair.
ExplanationEqualsMatchDetails ==
    (ExplanationReturned /\ ret # Raised)
    => /\ ret.d.education_score = DetailOf(MatchOfExplained, "education_match")
       /\ ret.d.experience_score = DetailOf(MatchOfExplained, "experience_match")

\* An accounting resume against an ai_ml job without strict requirements:
\* the explanation reports education_score 1.0 and education_met, match
\* reports education_match 0.0.
WitnessExplanationDiffersFromDetails ==
    /\ ExplanationReturned
    /\ Get(call.resume_data, "domain", Absent) = PyStr(accounting)
    /\ Get(call.jd_data, "domain", Absent) = PyStr(ai_ml)
    /\ ret # Raised
    /\ ret.d.domain_match = False
    /\ ret.d.education_score = One
    /\ ret.d.education_met = True
    /\ DetailOf(MatchOfExplained, "education_match") = Zero
    /\ DetailOf(MatchOfExplained, "domain_match") = Zero

\* C21: in every explanation education_met is true exactly when the
\* education_score of the same explanation is at least 0.5, and
\* experience_met exactly when its experience_score is at least 0.5,
\* whatever the weights of the matcher.
ExplanationThresholdIsHalf ==
    (ExplanationReturned /\ ret # Raised)
    => /\ ret.d.education_met \in {True, False}
       /\ ret.d.experience_met \in {True, False}
       /\ ret.d.education_met = True
             <=> 2 * ret.d.education_score.n >= ret.d.education_score.d
       /\ ret.d.experience_met = True
             <=> 2 * ret.d.experience_score.n >= ret.d.experience_score.d

\* On a matcher whose education weight is 0.7: one year against a minimum
\* of two gives experience_score 0.25 and experience_met false, beside
\* education_score 1.0 and education_met true.
WitnessExplanationThresholdIsHalf ==
    /\ ExplanationReturned
    /\ ret # Raised
    /\ "education" \in DOMAIN weights.d
    /\ weights.d.education = Num(7, 10)
    /\ ret.d.experience_score = Num(1, 4)
    /\ ret.d.experience_met = False
    /\ ret.d.education_score = One
    /\ ret.d.education_met = True

\* The first entry of the table whose key the domain starts with, 0 when
\* there is none.
FamilyEntry(table, d) ==
    IF \E k \in 1..Len(table) : StartsWith(d.s, table[k][1])
    THEN CHOOSE k \in 1..Len(table) :
             /\ StartsWith(d.s, table[k][1])
             /\ \A m \in 1..(k - 1) : ~StartsWith(d.s, table[m][1])
    ELSE 0

\* The two-phase procedure: equal domains are compatible; else the job
\* domain's family decides on the resume domain's prefix; only when the job
\* domain has no family the resume domain's family decides on the job
\* domain's prefix; with no family at all the pair is incompatible.
TwoPhase(table, resume_domain, jd_domain) ==
    LET j == FamilyEntry(table, jd_domain)
        r == FamilyEntry(table, resume_domain)
    IN  IF resume_domain = jd_domain THEN True
        ELSE IF j # 0 THEN Not(AnyStartsWith(resume_domain, table[j][2]))
        ELSE IF r # 0 THEN Not(AnyStartsWith(jd_domain, table[r][2]))
        ELSE False

\* C25: for every pair of domain strings the interleaved loop of
\* _check_domain_compatibility (per key in table order: job domain, then
\* resume domain, return at the first hit) returns the verdict of the
\* two-phase procedure (job domain's family first, the resume domain's
\* family only when the job domain has none).
InterleavedLoopIsTwoPhase ==
    (GateReturned /\ IsStr(call.resume_domain) /\ IsStr(call.jd_domain))
    => ret = TwoPhase(incompatible_domains, call.resume_domain, call.jd_domain)

\* Both domains have a family and the resume's key stands first in the
\* table: the loop decides at accounting on the job domain's prefix, the
\* two-phase procedure at engineering on the resume domain's prefix.
WitnessInterleavedLoopIsTwoPhase ==
    /\ GateReturned
    /\ call.resume_domain = PyStr(accounting \o <<"_", "t", "a", "x">>)
    /\ call.jd_domain = PyStr(engineering_electrical)
    /\ FamilyEntry(incompatible_domains, call.resume_domain)
         < FamilyEntry(incompatible_domains, call.jd_domain)
    /\ ret = False

\* C27: when exactly one of the two domain strings starts with a key of the
\* table and the other with none, the gate returns True in both argument
\* orders; a domain of no family is rejected only against a different
\* domain of no family.
UnrecognizedAcceptedAgainstFamilies ==
    (GateReturned /\ IsStr(call.resume_domain) /\ IsStr(call.jd_domain))
    => /\ (StartsWithNoKey(call.resume_domain) # StartsWithNoKey(call.jd_domain))
            => /\ ret = True
               /\ CheckDomainCompatibility(incompatible_domains,
                                           call.jd_domain, call.resume_domain) = True
       /\ ((StartsWithNoKey(call.resume_domain) \/ StartsWithNoKey(call.jd_domain))
            /\ ret = False)
            => /\ StartsWithNoKey(call.resume_domain)
               /\ StartsWithNoKey(call.jd_domain)
               /\ call.resume_domain # call.jd_domain

\* A marketing resume against a sub-tagged accounting job.
WitnessUnrecognizedAcceptedAgainstFamilies ==
    /\ GateReturned
    /\ call.resume_domain = PyStr(marketing)
    /\ call.jd_domain = PyStr(accounting \o <<"_", "t", "a", "x">>)
    /\ StartsWithNoKey(call.resume_domain)
    /\ ~StartsWithNoKey(call.jd_domain)
    /\ ret = True

\* C28: the gate is symmetric: for all domain strings a and b,
\* _check_domain_compatibility(a, b) = _check_domain_compatibility(b, a).
GateSymmetric ==
    (GateReturned /\ IsStr(call.resume_domain) /\ IsStr(call.jd_domain))
    => ret = CheckDomainCompatibility(incompatible_domains,
                                      call.jd_domain, call.resume_domain)

\* An accounting resume against a marketing job: the job domain hits no
\* key, the resume domain hits the first one, and the verdict is that of
\* the exchanged call.
WitnessGateSymmetric ==
    /\ GateReturned
    /\ call.resume_domain = PyStr(accounting)
    /\ call.jd_domain = PyStr(marketing)
    /\ ret = True
    /\ CheckDomainCompatibility(incompatible_domains,
                                call.jd_domain, call.resume_domain) = True

\* C29: for every resume/job pair, records without a domain field
\* included, the domain_match of generate_explanation is true exactly when
\* match reports details.domain_match = 1.0 for the same pair.
ExplanationDomainMatchAgrees ==
    (ExplanationReturned /\ ret # Raised)
    => (ret.d.domain_match = True
          <=> DetailOf(MatchOfExplained, "domain_match") = One)

\* A resume without a domain field against a marketing job: the explanation
\* reports domain_match False (the gate on '' and 'marketing'), match
\* reports domain_match 1.0 (the gate on 'general' and 'marketing').
WitnessExplanationDomainMatchDisagrees ==
    /\ ExplanationReturned
    /\ Get(call.resume_data, "domain", Absent) = Absent
    /\ Get(call.jd_data, "domain", Absent) = PyStr(marketing)
    /\ ret # Raised
    /\ ret.d.domain_match = False
    /\ ret.d.resume_domain = PyStr(<<>>)
    /\ DetailOf(MatchOfExplained, "domain_match") = One

\* The entries of a ranking, each the entry of one embedded resume and each
\* embedded resume with one entry.
OneEntryPerEmbedded(entries) ==
    LET embedded == {k \in 1..Len(attempts) : Embedded(k)}
    IN  \E p \in [1..Len(entries) -> embedded] :
           /\ \A a, b \in 1..Len(entries) : a # b => p[a] # p[b]
           /\ \A k \in embedded : \E a \in 1..Len(entries) : p[a] = k
           /\ \A a \in 1..Len(entries) :
                 /\ entries[a][2] = call.resumes[p[a]]
                 /\ MatchFailedFor(p[a])
                    => /\ entries[a][1] = Zero
                       /\ \A key \in DOMAIN entries[a][3].d : entries[a][3].d[key] = Zero
                       /\ DOMAIN entries[a][3].d = SubScoreKeys \cup {"base_score"}

\* C30: rank_candidates drops a resume only when reading its content or
\* the embedder call raises; a resume with an embedding whose match fails
\* inside match appears exactly once, with score 0.0 and all details 0.0;
\* the length of the output is the number of resumes with an embedding.
\* During the loop the same holds of the entries appended so far.
RankKeepsFailedMatches ==
    /\ RankRunning => OneEntryPerEmbedded(ranked)
    /\ RankReturned
       => /\ OneEntryPerEmbedded(ret.l)
          /\ Len(ret.l) = Len(SelectSeq(attempts, LAMBDA a : a.emb \notin {Raised, Absent}))

\* Three resumes with an embedding, the first and the last with an
\* embedding of the wrong length, so that their match fails; the output
\* has three entries, the failed ones behind the scored one.
WitnessRankKeepsFailedMatches ==
    /\ RankReturned
    /\ Len(call.resumes) = 3
    /\ attempts[1].emb = IntList(<<2>>)
    /\ attempts[2].emb = IntList(<<3, 4>>)
    /\ attempts[3].emb = IntList(<<2>>)
    /\ MatchFailedFor(1) /\ ~MatchFailedFor(2) /\ MatchFailedFor(3)
    /\ call.resumes[1] = call.resumes[3]
    /\ Len(ret.l) = 3
    /\ Lt(Zero, ret.l[1][1])
    /\ ret.l[2][1] = Zero /\ ret.l[3][1] = Zero

\* Whether a score is exactly 0.0 or at least 0.6.
ZeroOrAtLeastDomainWeight(score) == score = Zero \/ ~Lt(score, Num(6, 10))

\* C26: with the default weights every match result has a score that is
\* exactly 0.0 (the gate rejects the domains, or the computation fails) or
\* at least 0.6 (the gate accepts them, whatever the other sub-scores);
\* so rank_candidates returns every entry of a compatible resume ahead of
\* every entry of an incompatible or failed one.
DefaultScoreZeroOrDomainWeight ==
    weights = DefaultWeights
    => /\ MatchReturned
          => /\ ZeroOrAtLeastDomainWeight(ScoreOf(ret))
             /\ ScoreOf(ret) = Zero <=> (MatchFailed \/ MatchGateVerdict = False)
             /\ ScoreOf(ret) = Zero <=> DetailOf(ret, "domain_match") = Zero
       /\ RankRunning
          => \A a \in 1..Len(ranked) : ZeroOrAtLeastDomainWeight(ranked[a][1])
       /\ RankReturned
          => \A a, b \in 1..Len(ret.l) :
                (ret.l[a][3].d.domain_match = One /\ ret.l[b][3].d.domain_match = Zero)
                => (a < b /\ Lt(ret.l[b][1], ret.l[a][1]))

\* An accounting resume against a strict accounting job without required
\* skills, with no years and no certification: every other sub-score is
\* 0.0 and the score is exactly 0.6.
WitnessDefaultScoreZeroOrDomainWeight ==
    /\ MatchReturned
    /\ weights = DefaultWeights
    /\ MatchGateVerdict = True
    /\ DetailOf(ret, "skills_match") = Zero
    /\ DetailOf(ret, "education_match") = Zero
    /\ DetailOf(ret, "experience_match") = Zero
    /\ ScoreOf(ret) = Num(6, 10)

\* What a call c returns as the first call on a fresh matcher of weights w,
\* given what the embedder did for the resumes (att) in a ranking.
FreshResult(w, c, att) ==
    IF c.op = "match"
    THEN Match(w, IncompatibleDomains, c.resume_embedding, c.jd_embedding,
               c.resume_data, c.jd_data)
    ELSE IF c.op = "generate_explanation"
    THEN GenerateExplanation(IncompatibleDomains, c.resume_data, c.jd_data)
    ELSE IF c.op = "rank_candidates"
    THEN LET entry(k) == RankEntry(w, IncompatibleDomains, c.resumes[k], att[k].emb,
                                   c.jd_embedding, c.jd_data)
             kept == SelectSeq([k \in 1..Len(att) |-> k], LAMBDA k : entry(k) # Raised)
         IN  PyList(SortedByScore([j \in 1..Len(kept) |-> entry(kept[j])]))
    ELSE None

\* C23: the matcher is stateless across calls: no step of match,
\* generate_explanation or rank_candidates, failed ones included, changes
\* the weights or the incompatibility table, the records passed to a
\* running call stay as they were passed, and whatever calls came before,
\* a call returns what it returns as the first call on a fresh matcher of
\* the same weights.
StatelessAcrossCalls ==
    [][/\ weights' = weights
       /\ incompatible_domains' = incompatible_domains
       /\ incompatible_domains = IncompatibleDomains
       /\ weights \in {InitWeights(w) : w \in WeightsArguments}
       /\ pc = "loop" => call' = call
       /\ (pc' = "returned"
            /\ call'.op \in {"match", "generate_explanation", "rank_candidates"})
           => ret' = FreshResult(weights, call', attempts')]_vars

\* A ranking on a matcher whose weights lack the education key has
\* returned: the embedder raised for one resume and every match failed on
\* the missing key; the weights are still without the key.
WitnessStatelessAcrossCalls ==
    /\ RankReturned
    /\ "education" \notin DOMAIN weights.d
    /\ incompatible_domains = IncompatibleDomains
    /\ Len(call.resumes) = 3
    /\ attempts[1].emb = Raised
    /\ Len(ret.l) = 2
    /\ \A j \in 1..2 : ret.l[j][1] = Zero
    /\ ret = FreshResult(weights, call, attempts)

\* Whether a list of (idx, score) tuples is the first entries of the full
\* ranking of the scores: min(K, number of resumes) tuples of different
\* resumes with their scores, descending, and no resume left out has a
\* higher score than one in the list.
IsTopKOfScores(out, scores, K) ==
    /\ Len(out) = (IF K < Len(scores) THEN K ELSE Len(scores))
    /\ \A a \in 1..Len(out) :
          /\ out[a][1].n + 1 \in 1..Len(scores)
          /\ out[a][2] = scores[out[a][1].n + 1]
    /\ \A a, b \in 1..Len(out) : a < b => out[a][1] # out[b][1]
    /\ \A a \in 1..(Len(out) - 1) : ~Lt(out[a][2], out[a + 1][2])
    /\ \A k \in 1..Len(scores) :
          (\A a \in 1..Len(out) : out[a][1].n + 1 # k)
          => \A a \in 1..Len(out) : ~Lt(out[a][2], scores[k])

\* rank_resumes with top_k = K returns the first K entries of the full
\* ranking, whenever match raises for no resume.
RankResumesTruncates ==
    (pc = "returned" /\ call.op = "rank_resumes" /\ call.top_k # Absent
     /\ \A k \in 1..Len(call.scores) : call.scores[k] # Raised)
    => /\ IsList(ret)
       /\ IsTopKOfScores(ret.l, call.scores, call.top_k.n)

\* C22: a ranking with top_k = K returns the first K entries of the full
\* score-descending ranking, all entries when fewer than K resumes were
\* ranked: for rank_resumes as for rank_candidates the result is a list of
\* min(K, number of ranked resumes) entries.
TopKTruncatesRanking ==
    /\ RankResumesTruncates
    /\ (pc = "returned" /\ call.op = "rank_candidates" /\ "top_k" \in DOMAIN call)
       => /\ IsList(ret)
          /\ Len(ret.l) <= call.top_k.n
          /\ Len(ret.l) <= Len(call.resumes)

\* rank_candidates called with three resumes and top_k = 2: TypeError.
WitnessRankCandidatesRejectsTopK ==
    /\ pc = "returned"
    /\ call.op = "rank_candidates"
    /\ "top_k" \in DOMAIN call
    /\ call.top_k = Num(2, 1)
    /\ Len(call.resumes) = 3
    /\ ret = Raised

ExtractReturned == pc = "returned" /\ call.op \in ExtractOps

\* Whatever the models do before an answer, the call returns what parsing
\* the answer gives, and {} when a model raises an error that is no 404.
ExtractReturnsDictOnAnswerOrError ==
    (ExtractReturned /\ attempts # <<>>
     /\ ~Contains(IF attempts[Len(attempts)].outcome.k = "raise"
                  THEN attempts[Len(attempts)].outcome.msg ELSE <<>>,
                  <<"4", "0", "4">>))
    => IsDict(ret)

\* C24: the extraction fallback never raises and always returns a mapping:
\* for every sequence of outcomes of the models gemini-1.5-pro,
\* gemini-1.5-flash and gemini-pro, the one in which every model fails
\* with a 404 included, extract_fields and extract_job_requirements return
\* a dict.
ExtractAlwaysReturnsDict == ExtractReturned => IsDict(ret)

\* Every one of the three models raised a 404: the call returns None.
WitnessAllModelsNotFound ==
    /\ ExtractReturned
    /\ gemini_available
    /\ Len(attempts) = Len(model_names)
    /\ \A k \in 1..Len(attempts) :
          /\ attempts[k].model = model_names[k]
          /\ attempts[k].outcome = Failure(<<"4", "0", "4">>)
    /\ ret = None

====
